---- MODULE Spec2Model ----
(***************************************************************************)
(* A model of pyfc's typed value system and unit-resolution engine:        *)
(*   - the taxonomy enums (IfcPrefix, IfcValueType, IfcUnitType) and their *)
(*     lenient string lookups                          (models/value.py)   *)
(*   - IfcValue.__post_init__ and ValueFactory.create  (models/value.py)   *)
(*   - the conversions of utils/convert.py                                 *)
(*   - the entity store behind IosModelContext         (ios/context.py)    *)
(*   - IosValueUnitHandler                             (ios/value_handler) *)
(*   - IosPSetAdapter / IosPropertyAdapter add, get_value, set_value       *)
(*                                                     (ios/properties.py) *)
(* Python strings are TLA+ strings (Len, \o and SubSeq work character by   *)
(* character); Python's None is the value None below.  A call that can     *)
(* raise returns a record with an "ok" field and the exception's name.     *)
(***************************************************************************)
EXTENDS Integers, Sequences, FiniteSets, TLC

VARIABLES
    ents,         \* the entity store: id -> entity record (ifc_model)
    nextId,       \* the id the store gives to the next created entity
    is_modified,  \* IosModelContext._is_modified
    last,         \* the last adapter call: its arguments, result and what it saw before
    call,         \* the last call of a pure function: [fn, arg, out]
    persisted,    \* property id -> the (unit_type, prefix) of the Value last persisted to it
    calls,        \* the number of adapter calls made so far
    file_path,    \* IosModelContext._file_path, None for a model that was not opened from a file
    disk          \* the files: path -> the model written there, if there is one

vars == <<ents, nextId, is_modified, last, call, persisted, calls, file_path, disk>>

\* ------------------------------------------------------------------ bounds

\* adapter calls in one behaviour
MaxCalls == 2
\* fragments concatenated into one looked-up token
MaxFrags == 2

\* ----------------------------------------------------------------- strings

\* Python's None where a str (or an entity) is expected
None == "~None~"

LowerChars == "abcdefghijklmnopqrstuvwxyz"
UpperChars == "ABCDEFGHIJKLMNOPQRSTUVWXYZ"
Digits == "0123456789"

CharAt(s, i) == SubSeq(s, i, i)

\* the position of character c in the alphabet a, 0 when it is not there
IndexIn(a, c) == IF \E i \in 1..Len(a) : CharAt(a, i) = c THEN CHOOSE i \in 1..Len(a) : CharAt(a, i) = c ELSE 0

UpperChar(c) == IF IndexIn(LowerChars, c) # 0 THEN CharAt(UpperChars, IndexIn(LowerChars, c)) ELSE c

LowerChar(c) == IF IndexIn(UpperChars, c) # 0 THEN CharAt(LowerChars, IndexIn(UpperChars, c)) ELSE c

RECURSIVE str_upper(_)
str_upper(s) == IF Len(s) = 0 THEN "" ELSE UpperChar(CharAt(s, 1)) \o str_upper(SubSeq(s, 2, Len(s)))

RECURSIVE str_lower(_)
str_lower(s) == IF Len(s) = 0 THEN "" ELSE LowerChar(CharAt(s, 1)) \o str_lower(SubSeq(s, 2, Len(s)))

\* Python's `sub in s`
Contains(s, sub) == \E i \in 1..(Len(s) - Len(sub) + 1) : SubSeq(s, i, i + Len(sub) - 1) = sub

RECURSIVE str_lstrip(_)
str_lstrip(s) == IF Len(s) > 0 /\ CharAt(s, 1) = " " THEN str_lstrip(SubSeq(s, 2, Len(s))) ELSE s

RECURSIVE str_rstrip(_)
str_rstrip(s) == IF Len(s) > 0 /\ CharAt(s, Len(s)) = " " THEN str_rstrip(SubSeq(s, 1, Len(s) - 1)) ELSE s

\* str.strip, of blanks
str_strip(s) == str_rstrip(str_lstrip(s))

\* Python's truthiness of an optional string: None and "" are falsy
Truthy(s) == s # None /\ s # ""

\* ---------------------------------------------------------------- taxonomy

\* Enum.__call__ after the lookup by value failed: what _missing_ returned,
\* or ValueError where it returned None
member_or_error(missing, placeholder) ==
    IF missing # None THEN [ok |-> TRUE, m |-> missing, err |-> ""]
    ELSE [ok |-> FALSE, m |-> placeholder, err |-> "ValueError"]

\* IfcPrefix: the member names; a member's value is its name, NONE's is ""
IfcPrefix == {"NONE", "EXA", "PETA", "TERA", "GIGA", "MEGA", "KILO", "HECTO", "DECA", "DECI", "CENTI", "MILLI", "MICRO", "NANO", "PICO", "FEMTO", "ATTO"}

IfcPrefix_value(m) == IF m = "NONE" THEN "" ELSE m

\* IfcPrefix._missing_: None and "" give NONE.  Otherwise it returns what
\* Enum._missing_ returns, which is None and raises nothing: the except
\* branch with the case-insensitive search is never entered.
IfcPrefix_missing(value) == IF value = None \/ value = "" THEN "NONE" ELSE None

\* IfcPrefix(value): the member with that value, else _missing_; a _missing_
\* that returns None makes the enum raise ValueError
IfcPrefix_call(value) ==
    IF \E m \in IfcPrefix : IfcPrefix_value(m) = value
    THEN [ok |-> TRUE, m |-> CHOOSE m \in IfcPrefix : IfcPrefix_value(m) = value, err |-> ""]
    ELSE member_or_error(IfcPrefix_missing(value), "NONE")

\* IfcValueType: member names and their store type names
IfcValueType == {"REAL", "INTEGER", "BOOLEAN", "TEXT", "LABEL", "LOGICAL", "IDENTIFIER"}

IfcValueType_value(m) ==
    CASE m = "REAL" -> "IfcReal"
      [] m = "INTEGER" -> "IfcInteger"
      [] m = "BOOLEAN" -> "IfcBoolean"
      [] m = "TEXT" -> "IfcText"
      [] m = "LABEL" -> "IfcLabel"
      [] m = "LOGICAL" -> "IfcLogical"
      [] m = "IDENTIFIER" -> "IfcIdentifier"

\* IfcValueType._missing_ for a str; for anything else it returns None
IfcValueType_missing(value) ==
    IF value = None THEN None
    ELSE LET upper_value == str_upper(value) IN
         IF Contains(upper_value, "MEASURE")
         THEN IF Contains(upper_value, "COUNT") THEN "INTEGER"
              ELSE IF Contains(upper_value, "LOGICAL") \/ Contains(upper_value, "BOOLEAN") THEN "LOGICAL"
              ELSE "REAL"
         ELSE IF upper_value = "IFCBOOLEAN" THEN "BOOLEAN"
         ELSE "TEXT"

\* IfcValueType(value)
IfcValueType_call(value) ==
    IF \E m \in IfcValueType : IfcValueType_value(m) = value
    THEN [ok |-> TRUE, m |-> CHOOSE m \in IfcValueType : IfcValueType_value(m) = value, err |-> ""]
    ELSE member_or_error(IfcValueType_missing(value), "TEXT")

\* IfcUnitType.  UNKNOWN and COUNT are declared with the same value
\* (None, None, False): in a Python Enum the second is an alias of the
\* first, so IfcUnitType.COUNT is the member UNKNOWN and the enum has
\* eleven members.
UNKNOWN == "UNKNOWN"
COUNT == UNKNOWN

IfcUnitType == {UNKNOWN, COUNT, "LENGTH", "AREA", "VOLUME", "MASS", "TIME", "TEMPERATURE", "PRESSURE", "ENERGY", "POWER", "PLANEANGLE"}

\* IfcUnitType[name]: the names, aliases included; None stands for KeyError
IfcUnitType_by_name(name) ==
    IF name = "COUNT" THEN COUNT
    ELSE IF name \in IfcUnitType THEN name
    ELSE None

ifc_unit_enum(m) ==
    CASE m = UNKNOWN -> None
      [] m = "LENGTH" -> "LENGTHUNIT"
      [] m = "AREA" -> "AREAUNIT"
      [] m = "VOLUME" -> "VOLUMEUNIT"
      [] m = "MASS" -> "MASSUNIT"
      [] m = "TIME" -> "TIMEUNIT"
      [] m = "TEMPERATURE" -> "THERMODYNAMICTEMPERATUREUNIT"
      [] m = "PRESSURE" -> "PRESSUREUNIT"
      [] m = "ENERGY" -> "ENERGYUNIT"
      [] m = "POWER" -> "POWERUNIT"
      [] m = "PLANEANGLE" -> "PLANEANGLEUNIT"

default_si_name(m) ==
    CASE m = UNKNOWN -> None
      [] m = "LENGTH" -> "METRE"
      [] m = "AREA" -> "SQUARE_METRE"
      [] m = "VOLUME" -> "CUBIC_METRE"
      [] m = "MASS" -> "GRAM"
      [] m = "TIME" -> "SECOND"
      [] m = "TEMPERATURE" -> "KELVIN"
      [] m = "PRESSURE" -> "PASCAL"
      [] m = "ENERGY" -> "JOULE"
      [] m = "POWER" -> "WATT"
      [] m = "PLANEANGLE" -> "RADIAN"

is_si(m) == m # UNKNOWN

\* a plausible bug: a miss raises instead of giving UNKNOWN
from_ifc_unit_enum_strict(ifc_enum_str) ==
    IF ~Truthy(ifc_enum_str) THEN [ok |-> TRUE, m |-> UNKNOWN, err |-> ""]
    ELSE LET upper_enum_str == str_upper(ifc_enum_str) IN
         IF \E m \in IfcUnitType : ifc_unit_enum(m) = upper_enum_str
         THEN [ok |-> TRUE, m |-> CHOOSE m \in IfcUnitType : ifc_unit_enum(m) = upper_enum_str, err |-> ""]
         ELSE [ok |-> FALSE, m |-> UNKNOWN, err |-> "ValueError"]

\* IfcUnitType.from_ifc_unit_enum
from_ifc_unit_enum(ifc_enum_str) ==
    IF ~Truthy(ifc_enum_str) THEN [ok |-> TRUE, m |-> UNKNOWN, err |-> ""]
    ELSE LET upper_enum_str == str_upper(ifc_enum_str) IN
         IF \E m \in IfcUnitType : ifc_unit_enum(m) = upper_enum_str
         THEN [ok |-> TRUE, m |-> CHOOSE m \in IfcUnitType : ifc_unit_enum(m) = upper_enum_str, err |-> ""]
         ELSE [ok |-> TRUE, m |-> UNKNOWN, err |-> ""]

\* IfcUnitType.from_measure_type: the first substring that matches, in this order
from_measure_type(measure_type) ==
    IF ~Truthy(measure_type) THEN [ok |-> TRUE, m |-> UNKNOWN, err |-> ""]
    ELSE LET upper_measure == str_upper(measure_type)
             hit == IF Contains(upper_measure, "LENGTH") THEN "LENGTH"
                    ELSE IF Contains(upper_measure, "AREA") THEN "AREA"
                    ELSE IF Contains(upper_measure, "VOLUME") THEN "VOLUME"
                    ELSE IF Contains(upper_measure, "MASS") THEN "MASS"
                    ELSE IF Contains(upper_measure, "TIME") THEN "TIME"
                    ELSE IF Contains(upper_measure, "THERMODYNAMICTEMPERATURE") THEN "TEMPERATURE"
                    ELSE IF Contains(upper_measure, "PRESSURE") THEN "PRESSURE"
                    ELSE IF Contains(upper_measure, "ENERGY") THEN "ENERGY"
                    ELSE IF Contains(upper_measure, "POWER") THEN "POWER"
                    ELSE IF Contains(upper_measure, "COUNT") THEN COUNT
                    ELSE IF Contains(upper_measure, "PLANEANGLE") THEN "PLANEANGLE"
                    ELSE UNKNOWN
         IN [ok |-> TRUE, m |-> hit, err |-> ""]

\* ------------------------------------------------------------ raw values
\* A Python value: None, a bool, an int, a float or a str.  A float is n
\* tenths, nudged up by a relative 1e-12 when e = 1: two floats with the
\* same n are within rel_tol = 1e-9 of each other, two with different n are
\* not.  Numbers are not negative, and 0.0 is never nudged.

NoneRaw == [k |-> "none", b |-> FALSE, n |-> 0, e |-> 0, s |-> ""]
RBool(b) == [k |-> "bool", b |-> b, n |-> 0, e |-> 0, s |-> ""]
RInt(n) == [k |-> "int", b |-> FALSE, n |-> n, e |-> 0, s |-> ""]
RFloat(n, e) == [k |-> "float", b |-> FALSE, n |-> n, e |-> e, s |-> ""]
RStr(s) == [k |-> "str", b |-> FALSE, n |-> 0, e |-> 0, s |-> s]

\* isinstance(value, int): a bool is an int
isinstance_int(value) == value.k \in {"int", "bool"}

IsDigits(s) == Len(s) > 0 /\ \A i \in 1..Len(s) : IndexIn(Digits, CharAt(s, i)) # 0

RECURSIVE DigitsValue(_)
DigitsValue(s) == IF Len(s) = 0 THEN 0 ELSE 10 * DigitsValue(SubSeq(s, 1, Len(s) - 1)) + (IndexIn(Digits, CharAt(s, Len(s))) - 1)

\* a decimal literal with one digit after the point, such as "3.5"
IsDecimal(s) == Len(s) >= 3 /\ CharAt(s, Len(s) - 1) = "." /\ IsDigits(SubSeq(s, 1, Len(s) - 2)) /\ IsDigits(CharAt(s, Len(s)))

RECURSIVE DigitsOf(_)
DigitsOf(n) == IF n < 10 THEN CharAt(Digits, n + 1) ELSE DigitsOf(n \div 10) \o CharAt(Digits, (n % 10) + 1)

\* int(value): truncates a float, parses a str of digits
py_int(value) ==
    CASE value.k = "bool" -> [ok |-> TRUE, v |-> RInt(IF value.b THEN 1 ELSE 0), err |-> ""]
      [] value.k = "int" -> [ok |-> TRUE, v |-> value, err |-> ""]
      [] value.k = "float" -> [ok |-> TRUE, v |-> RInt(value.n \div 10), err |-> ""]
      [] value.k = "str" -> IF IsDigits(value.s) THEN [ok |-> TRUE, v |-> RInt(DigitsValue(value.s)), err |-> ""]
                            ELSE [ok |-> FALSE, v |-> NoneRaw, err |-> "ValueError"]
      [] value.k = "none" -> [ok |-> FALSE, v |-> NoneRaw, err |-> "TypeError"]

\* float(value)
py_float(value) ==
    CASE value.k = "bool" -> [ok |-> TRUE, v |-> RFloat(IF value.b THEN 10 ELSE 0, 0), err |-> ""]
      [] value.k = "int" -> [ok |-> TRUE, v |-> RFloat(10 * value.n, 0), err |-> ""]
      [] value.k = "float" -> [ok |-> TRUE, v |-> value, err |-> ""]
      [] value.k = "str" -> IF IsDigits(value.s) THEN [ok |-> TRUE, v |-> RFloat(10 * DigitsValue(value.s), 0), err |-> ""]
                            ELSE IF IsDecimal(value.s)
                            THEN [ok |-> TRUE, v |-> RFloat(10 * DigitsValue(SubSeq(value.s, 1, Len(value.s) - 2)) + DigitsValue(CharAt(value.s, Len(value.s))), 0), err |-> ""]
                            ELSE [ok |-> FALSE, v |-> NoneRaw, err |-> "ValueError"]
      [] value.k = "none" -> [ok |-> FALSE, v |-> NoneRaw, err |-> "TypeError"]

\* str(value); a nudged float prints its further digits
py_str(value) ==
    CASE value.k = "bool" -> IF value.b THEN "True" ELSE "False"
      [] value.k = "int" -> DigitsOf(value.n)
      [] value.k = "float" -> DigitsOf(value.n \div 10) \o "." \o DigitsOf(value.n % 10) \o (IF value.e = 0 THEN "" ELSE "00000000001")
      [] value.k = "str" -> value.s
      [] value.k = "none" -> "None"

IsNumber(value) == value.k \in {"bool", "int", "float"}

\* a number in tenths, and its nudge
Tenths(value) == IF value.k = "bool" THEN (IF value.b THEN 10 ELSE 0) ELSE IF value.k = "int" THEN 10 * value.n ELSE value.n

\* Python's a == b
PyEq(a, b) ==
    IF IsNumber(a) /\ IsNumber(b) THEN Tenths(a) = Tenths(b) /\ a.e = b.e
    ELSE a.k = b.k /\ a.s = b.s

\* ------------------------------------------------------- utils/convert.py

\* a plausible bug: whatever float() takes counts as an int
is_int_numeric(value) == isinstance_int(value) \/ py_float(value).ok

is_int(value) == isinstance_int(value) \/ py_int(value).ok

\* the converted value, or None where the conversion raised
value_or_none(converted) == IF converted.ok THEN converted.v ELSE NoneRaw

\* as_int: the value itself when it is an int (a bool stays a bool)
as_int(value) == IF isinstance_int(value) THEN value ELSE value_or_none(py_int(value))

is_float(value) == value.k = "float" \/ py_float(value).ok

as_float(value) == IF value.k = "float" THEN value ELSE value_or_none(py_float(value))

\* is_close, the operand as a float: a number is kept, anything else goes
\* through float()
float_operand(a) == IF IsNumber(a) THEN [ok |-> TRUE, v |-> a, err |-> ""] ELSE py_float(a)

\* is_close, the comparison of the converted operands
isclose_or_equal(a, b, fa, fb) == IF fa.ok /\ fb.ok THEN Tenths(fa.v) = Tenths(fb.v) ELSE PyEq(a, b)

\* is_close: math.isclose with rel_tol=1e-9, abs_tol=0.0 after float(); when
\* a conversion fails, a == b
is_close(a, b) == isclose_or_equal(a, b, float_operand(a), float_operand(b))

TRUE_VALUES == {"true", "yes", "ja", "1"}
FALSE_VALUES == {"false", "no", "nein", "0"}

\* as_bool, the lookup of the lowered text
bool_of(lowered) ==
    IF lowered \in TRUE_VALUES THEN RBool(TRUE)
    ELSE IF lowered \in FALSE_VALUES THEN RBool(FALSE)
    ELSE NoneRaw

as_bool(value) == IF value.k = "bool" THEN value ELSE bool_of(str_lower(py_str(value)))

\* ------------------------------------------------------------- IfcValue

PhysicalUnitTypes == {"LENGTH", "AREA", "VOLUME", "MASS", "TIME", "TEMPERATURE", "PRESSURE", "ENERGY", "POWER", "PLANEANGLE"}

\* the value an unsuccessful call carries in its "v" field
NoValue == [value |-> NoneRaw, value_type |-> "TEXT", unit_type |-> UNKNOWN, prefix |-> "NONE"]

\* a plausible bug: the prefix is kept for UNKNOWN and COUNT
IfcValue_keep_prefix(value, value_type, unit_type, prefix) ==
    [ok |-> TRUE, v |-> [value |-> value, value_type |-> value_type, unit_type |-> unit_type, prefix |-> prefix], mismatch |-> FALSE]

\* IfcValue(value, value_type, unit_type, prefix): the dataclass with its
\* __post_init__.  The prefix is reset for UNKNOWN and COUNT; a value type
\* the unit type does not expect is only logged (mismatch).
IfcValue(value, value_type, unit_type, prefix) ==
    LET new_prefix == IF prefix # "NONE" /\ unit_type \in {UNKNOWN, COUNT} THEN "NONE" ELSE prefix
        mismatch == IF unit_type \in PhysicalUnitTypes THEN value_type # "REAL"
                    ELSE IF unit_type = COUNT THEN value_type \notin {"INTEGER", "REAL"}
                    ELSE FALSE
    IN [ok |-> TRUE, v |-> [value |-> value, value_type |-> value_type, unit_type |-> unit_type, prefix |-> new_prefix], mismatch |-> mismatch]

\* IfcValue.__eq__, as the dataclass generates it: the tuples of the four
\* fields are compared, the raw values by Python's ==
IfcValue_eq(a, b) ==
    PyEq(a.value, b.value) /\ a.value_type = b.value_type /\ a.unit_type = b.unit_type /\ a.prefix = b.prefix

\* ---------------------------------------------------------- ValueFactory

\* a type argument of create: not supplied, an enum member, or a str
NotSupplied == [k |-> "none", x |-> ""]
Member(m) == [k |-> "member", x |-> m]
AsStr(s) == [k |-> "str", x |-> s]

\* IfcValueType.from_python_type
from_python_type(value) ==
    IF value.k = "bool" THEN "LOGICAL"
    ELSE IF is_int(value) THEN "INTEGER"
    ELSE IF is_float(value) THEN "REAL"
    ELSE "TEXT"

\* the failure of create: ValueError, with the raw value and the target
\* type its message names ("" when the message names none)
CreateError(original, target) == [ok |-> FALSE, v |-> NoValue, err |-> "ValueError", original |-> original, target |-> target, mismatch |-> FALSE]

CreateOk(r) == [ok |-> TRUE, v |-> r.v, err |-> "", original |-> NoneRaw, target |-> "", mismatch |-> r.mismatch]

\* the enum resolution of create: [ok, vt, ut, pf]; vt is None when the
\* value type is left to inference
resolved_value_type(value_type) ==
    IF value_type.k = "member" THEN [ok |-> TRUE, m |-> value_type.x, err |-> ""]
    ELSE IF value_type.k = "str" THEN IfcValueType_call(value_type.x)
    ELSE [ok |-> TRUE, m |-> None, err |-> ""]

\* the member of the semantic name, else the member of the IFC UnitEnum
by_name_or_enum(by_name, unit_type) == IF by_name # None THEN by_name ELSE from_ifc_unit_enum(unit_type).m

resolved_unit_type(unit_type) ==
    IF unit_type.k = "member" THEN unit_type.x
    ELSE IF unit_type.k = "str" THEN by_name_or_enum(IfcUnitType_by_name(str_upper(unit_type.x)), unit_type.x)
    ELSE UNKNOWN

\* a plausible bug: a prefix string that names no member gives NONE
resolved_prefix_lenient(prefix) ==
    IF prefix.k = "member" THEN [ok |-> TRUE, m |-> prefix.x, err |-> ""]
    ELSE IF prefix.k = "str" THEN [ok |-> TRUE, m |-> IfcPrefix_call(prefix.x).m, err |-> ""]
    ELSE [ok |-> TRUE, m |-> "NONE", err |-> ""]

resolved_prefix(prefix) ==
    IF prefix.k = "member" THEN [ok |-> TRUE, m |-> prefix.x, err |-> ""]
    ELSE IF prefix.k = "str" THEN IfcPrefix_call(prefix.x)
    ELSE [ok |-> TRUE, m |-> "NONE", err |-> ""]

Resolved(vt, ut, pf) == [ok |-> vt.ok /\ pf.ok, vt |-> vt.m, ut |-> ut, pf |-> pf.m]

ResolveEnums(value_type, unit_type, prefix) ==
    Resolved(resolved_value_type(value_type), resolved_unit_type(unit_type), resolved_prefix(prefix))

\* the coercion to bool: as_bool giving None is a ValueError
bool_or_error(bool_val) ==
    IF bool_val = NoneRaw THEN [ok |-> FALSE, v |-> NoneRaw, err |-> "ValueError"]
    ELSE [ok |-> TRUE, v |-> bool_val, err |-> ""]

\* the coercion of create: the raw value as the value type's Python type
Coerce(value, value_type) ==
    CASE value_type = "INTEGER" -> py_int(value)
      [] value_type = "REAL" -> py_float(value)
      [] value_type \in {"BOOLEAN", "LOGICAL"} -> bool_or_error(as_bool(value))
      [] value_type \in {"TEXT", "LABEL", "IDENTIFIER"} -> [ok |-> TRUE, v |-> RStr(py_str(value)), err |-> ""]

\* create, the return: the converted value with the resolved types
create_converted(value, resolved, inferred_value_type, converted) ==
    IF ~converted.ok THEN CreateError(value, IfcValueType_value(inferred_value_type))
    ELSE CreateOk(IfcValue(converted.v, inferred_value_type, resolved.ut, resolved.pf))

\* create, the coercion to the inferred value type
create_inferred(value, resolved, inferred_value_type) ==
    create_converted(value, resolved, inferred_value_type, Coerce(value, inferred_value_type))

\* create, the inference of a value type that was not supplied
create_resolved(value, resolved) ==
    IF ~resolved.ok THEN CreateError(NoneRaw, "")
    ELSE create_inferred(value, resolved, IF resolved.vt # None THEN resolved.vt ELSE from_python_type(value))

\* ValueFactory.create
create(value, value_type, unit_type, prefix) ==
    IF value = NoneRaw THEN CreateError(NoneRaw, "")
    ELSE create_resolved(value, ResolveEnums(value_type, unit_type, prefix))

\* ------------------------------------------------------ the entity store

\* An entity of the ifcopenshell file: its type and the attributes the
\* adapters touch.  A reference is the id of the entity it refers to, 0
\* where the attribute is unset.  "value" is wrappedValue for a value
\* holder and LengthValue/AreaValue/.../CountValue for a quantity.
Blank ==
    [type |-> "", Name |-> None, value |-> NoneRaw, NominalValue |-> 0, Unit |-> 0,
     UnitType |-> None, Prefix |-> None, Units |-> <<>>, UnitsInContext |-> 0,
     HasProperties |-> <<>>, Quantities |-> <<>>, RelatedObjects |-> <<>>, RelatingPropertyDefinition |-> 0]

QuantityTypes == {"IfcQuantityLength", "IfcQuantityArea", "IfcQuantityVolume", "IfcQuantityWeight", "IfcQuantityCount", "IfcQuantityTime"}

ValueHolderTypes == {"IfcReal", "IfcInteger", "IfcBoolean", "IfcLogical", "IfcText", "IfcLabel", "IfcIdentifier"}

\* entity.is_a(type), with the two supertypes the adapters ask for
is_a(entity, type) ==
    \/ entity.type = type
    \/ type = "IfcPhysicalQuantity" /\ entity.type \in QuantityTypes
    \/ type = "IfcProperty" /\ entity.type = "IfcPropertySingleValue"

is_property_or_quantity(entity) == is_a(entity, "IfcProperty") \/ is_a(entity, "IfcPhysicalQuantity")

\* the context a call works on, and hands back changed
Ctx(e, n, m) == [ents |-> e, nextId |-> n, is_modified |-> m]

\* IosModelContext.mark_modified
mark_modified(c) == [c EXCEPT !.is_modified = TRUE]

\* IosModelContext.create_entity: the new entity gets the next id
create_entity(c, entity) ==
    [c |-> mark_modified([c EXCEPT !.ents = (c.nextId :> entity) @@ c.ents, !.nextId = c.nextId + 1]), id |-> c.nextId]

Without(seq, id) == SelectSeq(seq, LAMBDA x : x # id)

named_in(seq, id) == \E k \in 1..Len(seq) : seq[k] = id

\* IosModelContext.remove_entity: the file drops the entity and unsets
\* every reference to it
remove_entity(c, id) ==
    mark_modified([c EXCEPT !.ents =
        [i \in DOMAIN c.ents \ {id} |->
            [c.ents[i] EXCEPT !.NominalValue = IF @ = id THEN 0 ELSE @,
                              !.Unit = IF @ = id THEN 0 ELSE @,
                              !.UnitsInContext = IF @ = id THEN 0 ELSE @,
                              !.Units = Without(@, id),
                              !.HasProperties = Without(@, id),
                              !.Quantities = Without(@, id),
                              !.RelatedObjects = Without(@, id),
                              !.RelatingPropertyDefinition = IF @ = id THEN 0 ELSE @]]])

\* IosModelContext.ifc_by_type(...)[0]: the first entity of the type, or 0
first_by_type(es, type) ==
    LET found == {i \in DOMAIN es : is_a(es[i], type)}
    IN IF found = {} THEN 0 ELSE CHOOSE i \in found : \A j \in found : i <= j

\* ------------------------------------------------------ IosValueUnitHandler

\* a plausible bug: a BOOLEAN is stored as an IfcBoolean
holder_for_literal(ifc_value) ==
    IF ifc_value.value_type = "BOOLEAN" THEN [type |-> "IfcBoolean", value |-> as_bool(ifc_value.value)]
    ELSE IF ifc_value.value_type = "LOGICAL" THEN [type |-> "IfcLogical", value |-> as_bool(ifc_value.value)]
    ELSE IF ifc_value.value_type = "INTEGER" THEN [type |-> "IfcInteger", value |-> as_int(ifc_value.value)]
    ELSE IF ifc_value.value_type = "REAL" THEN [type |-> "IfcReal", value |-> as_float(ifc_value.value)]
    ELSE [type |-> IfcValueType_value(ifc_value.value_type), value |-> RStr(py_str(ifc_value.value))]

\* the IFC type and the converted value create_ifc_value_entity stores for
\* a Value; value is NoneRaw where the conversion fails
holder_for(ifc_value) ==
    LET value == ifc_value.value
        value_type == ifc_value.value_type
    IN CASE value_type \in {"BOOLEAN", "LOGICAL"} -> [type |-> "IfcLogical", value |-> as_bool(value)]
         [] value_type = "INTEGER" -> [type |-> "IfcInteger", value |-> as_int(value)]
         [] value_type = "REAL" -> [type |-> "IfcReal", value |-> as_float(value)]
         [] value_type = "TEXT" -> [type |-> "IfcText", value |-> RStr(py_str(value))]
         [] value_type = "LABEL" -> [type |-> "IfcLabel", value |-> RStr(py_str(value))]
         [] value_type = "IDENTIFIER" -> [type |-> "IfcIdentifier", value |-> RStr(py_str(value))]

\* a created entity as the result of a call that may fail
Made(made) == [ok |-> TRUE, c |-> made.c, id |-> made.id, err |-> ""]

\* create_ifc_value_entity, the creation: None where the conversion failed
create_holder(c, holder) ==
    IF holder.value = NoneRaw THEN [ok |-> FALSE, c |-> c, id |-> 0, err |-> "IfcAdapterError"]
    ELSE Made(create_entity(c, [Blank EXCEPT !.type = holder.type, !.value = holder.value]))

\* create_ifc_value_entity: [ok, c, id, err]
create_ifc_value_entity(c, ifc_value) == create_holder(c, holder_for(ifc_value))

\* project.UnitsInContext.Units, <<>> without a project or a unit assignment
project_units_of(es, project) ==
    IF project = 0 THEN <<>>
    ELSE IF es[project].UnitsInContext = 0 THEN <<>>
    ELSE es[es[project].UnitsInContext].Units

\* the first of a set of positions of a sequence, or 0
first_of(seq, hits) == IF hits = {} THEN 0 ELSE seq[CHOOSE k \in hits : \A j \in hits : k <= j]

\* the loop over project_units: the first SI unit with the unit kind and
\* the Prefix attribute asked for
first_match(es, project_units, unit_type, ifc_prefix_enum_str) ==
    first_of(project_units,
             {k \in 1..Len(project_units) :
                 /\ is_si(unit_type)
                 /\ is_a(es[project_units[k]], "IfcSIUnit")
                 /\ es[project_units[k]].UnitType = ifc_unit_enum(unit_type)
                 /\ es[project_units[k]].Prefix = ifc_prefix_enum_str})

\* the search of get_or_create_unit: the first SI unit of the project's
\* unit assignment with the unit kind and the prefix, or 0
find_unit(es, unit_type, prefix) ==
    first_match(es, project_units_of(es, first_by_type(es, "IfcProject")), unit_type,
                IF prefix # "NONE" THEN IfcPrefix_value(prefix) ELSE None)

\* a plausible bug: the kilogram is a GRAM with the prefix KILO
si_unit_args_prefixed(unit_type, prefix) ==
    [Name |-> default_si_name(unit_type), Prefix |-> IF prefix # "NONE" THEN IfcPrefix_value(prefix) ELSE None]

\* the Name and Prefix of a new IfcSIUnit
si_unit_args(unit_type, prefix) ==
    IF prefix # "NONE" /\ unit_type = "MASS" /\ prefix = "KILO" THEN [Name |-> "KILOGRAM", Prefix |-> None]
    ELSE IF prefix # "NONE" THEN [Name |-> default_si_name(unit_type), Prefix |-> IfcPrefix_value(prefix)]
    ELSE [Name |-> default_si_name(unit_type), Prefix |-> None]

\* create_entity("IfcSIUnit", **unit_args)
create_si_unit(c, unit_type, args) ==
    create_entity(c, [Blank EXCEPT !.type = "IfcSIUnit", !.UnitType = ifc_unit_enum(unit_type), !.Name = args.Name, !.Prefix = args.Prefix])

\* the new unit appended to the Units of the unit assignment
append_unit(c, units_in_context, unit) ==
    [c |-> mark_modified([c EXCEPT !.ents[units_in_context].Units = Append(@, unit)]), unit |-> unit]

\* a new IfcUnitAssignment set as the project's UnitsInContext, and the new
\* unit appended to it
assign_units(a, project, unit) ==
    append_unit(mark_modified([a.c EXCEPT !.ents[project].UnitsInContext = a.id]), a.id, unit)

\* a plausible bug: the new unit is left out of the unit assignment
register_unit_nowhere(made, project) == [c |-> mark_modified(made.c), unit |-> made.id]

\* the registration of a new unit: in the project's unit assignment, which
\* is created where the project has none; without a project the unit is
\* left unregistered
register_unit(made, project) ==
    IF project = 0 THEN [c |-> mark_modified(made.c), unit |-> made.id]
    ELSE IF made.c.ents[project].UnitsInContext = 0
         THEN assign_units(create_entity(made.c, [Blank EXCEPT !.type = "IfcUnitAssignment"]), project, made.id)
         ELSE append_unit(made.c, made.c.ents[project].UnitsInContext, made.id)

\* the creation of get_or_create_unit: a new IfcSIUnit, appended to the
\* project's unit assignment (which is created when the project has none)
new_unit(c, unit_type, prefix) ==
    register_unit(create_si_unit(c, unit_type, si_unit_args(unit_type, prefix)), first_by_type(c.ents, "IfcProject"))

\* get_or_create_unit after the search: the unit found, else a new one
found_or_new(c, unit_type, prefix, found) ==
    IF found # 0 THEN [c |-> c, unit |-> found]
    ELSE IF is_si(unit_type) THEN new_unit(c, unit_type, prefix)
    ELSE [c |-> c, unit |-> 0]

\* a plausible bug: no search, a new unit on every call
get_or_create_unit_no_search(c, unit_type, prefix) ==
    IF unit_type \in {UNKNOWN, COUNT} THEN [c |-> c, unit |-> 0] ELSE new_unit(c, unit_type, prefix)

\* get_or_create_unit: [c, unit], unit 0 for None
get_or_create_unit(c, unit_type, prefix) ==
    IF unit_type \in {UNKNOWN, COUNT} THEN [c |-> c, unit |-> 0]
    ELSE IF ifc_unit_enum(unit_type) = None THEN [c |-> c, unit |-> 0]
    ELSE found_or_new(c, unit_type, prefix, find_unit(c.ents, unit_type, prefix))

\* an optional Value: what get_value returns
NoneValue == [some |-> FALSE, v |-> NoValue]
Some(v) == [some |-> TRUE, v |-> v]

\* the unit type a quantity entity stands for, by its IFC type
shape_unit_type(entity) ==
    CASE entity.type = "IfcQuantityLength" -> "LENGTH"
      [] entity.type = "IfcQuantityArea" -> "AREA"
      [] entity.type = "IfcQuantityVolume" -> "VOLUME"
      [] entity.type = "IfcQuantityWeight" -> "MASS"
      [] entity.type = "IfcQuantityCount" -> COUNT
      [] entity.type = "IfcQuantityTime" -> "TIME"
      [] OTHER -> UNKNOWN

\* the unit type of the unit entity where the shape implies none
refined_unit_type(inferred_unit_type, shape) ==
    IF inferred_unit_type # UNKNOWN /\ shape = UNKNOWN THEN inferred_unit_type ELSE shape

\* the prefix as IfcPrefix(unit.Prefix) gives it; a ValueError makes
\* get_ifc_value_from_entity return None
prefix_of(unit_type, pfx) == [ok |-> pfx.ok, unit_type |-> unit_type, prefix |-> IF pfx.ok THEN pfx.m ELSE "NONE"]

\* the prefix of the unit entity: KILO for a mass unit named KILOGRAM
resolve_prefix(unit, unit_type) ==
    IF unit_type = "MASS" /\ unit.Name = "KILOGRAM" THEN [ok |-> TRUE, unit_type |-> unit_type, prefix |-> "KILO"]
    ELSE prefix_of(unit_type, IfcPrefix_call(unit.Prefix))

\* the unit type and prefix get_ifc_value_from_entity reads from the unit
\* entity, given the unit type the entity's shape implies
resolve_unit(es, unit_entity, shape) ==
    IF unit_entity = 0 \/ ~is_a(es[unit_entity], "IfcSIUnit") THEN [ok |-> TRUE, unit_type |-> shape, prefix |-> "NONE"]
    ELSE resolve_prefix(es[unit_entity], refined_unit_type(from_ifc_unit_enum(es[unit_entity].UnitType).m, shape))

\* the raw value of the entity: NominalValue.wrappedValue of a property,
\* the value attribute of a quantity
raw_value_of(es, entity) ==
    IF entity.type = "IfcPropertySingleValue"
    THEN (IF entity.NominalValue # 0 THEN es[entity.NominalValue].value ELSE NoneRaw)
    ELSE entity.value

\* the value type of the entity: by the IFC type of the NominalValue, by
\* the Python type of a count, REAL for the other quantities
value_type_of(es, entity) ==
    IF entity.type = "IfcPropertySingleValue"
    THEN (IF entity.NominalValue # 0 THEN IfcValueType_call(es[entity.NominalValue].type).m ELSE None)
    ELSE IF entity.type = "IfcQuantityCount" THEN from_python_type(entity.value)
    ELSE "REAL"

\* a created Value as an optional: None where create raised
created_or_none(made) == IF made.ok THEN Some(made.v) ELSE NoneValue

\* get_ifc_value_from_entity, the creation of the Value from what was read
value_from(raw_value, value_type, unit) ==
    IF ~unit.ok THEN NoneValue
    ELSE IF raw_value = NoneRaw \/ value_type = None THEN NoneValue
    ELSE created_or_none(create(raw_value, Member(value_type), Member(unit.unit_type), Member(unit.prefix)))

\* get_ifc_value_from_entity: the Value of a property or quantity entity
get_ifc_value_from_entity(es, id) ==
    IF id \notin DOMAIN es THEN NoneValue
    ELSE IF es[id].type \notin QuantityTypes \cup {"IfcPropertySingleValue"} THEN NoneValue
    ELSE value_from(raw_value_of(es, es[id]), value_type_of(es, es[id]),
                    resolve_unit(es, IF es[id].type = "IfcQuantityCount" THEN 0 ELSE es[id].Unit, shape_unit_type(es[id])))

\* IosPropertyAdapter.get_value: [ok, got, err]
get_value(es, property_id) ==
    IF property_id \notin DOMAIN es THEN [ok |-> FALSE, got |-> NoneValue, err |-> "IfcAdapterError"]
    ELSE IF ~is_property_or_quantity(es[property_id]) THEN [ok |-> TRUE, got |-> NoneValue, err |-> ""]
    ELSE [ok |-> TRUE, got |-> get_ifc_value_from_entity(es, property_id), err |-> ""]

\* -------------------------------------------------------- QUANTITY_CONFIG

\* the unit types QUANTITY_CONFIG has a key for; COUNT is the key UNKNOWN
ConfiguredUnitTypes == {"LENGTH", "AREA", "VOLUME", "MASS", COUNT, "TIME"}

\* QUANTITY_CONFIG[unit_type].qto_type
qto_type(unit_type) ==
    CASE unit_type = "LENGTH" -> "IfcQuantityLength"
      [] unit_type = "AREA" -> "IfcQuantityArea"
      [] unit_type = "VOLUME" -> "IfcQuantityVolume"
      [] unit_type = "MASS" -> "IfcQuantityWeight"
      [] unit_type = COUNT -> "IfcQuantityCount"
      [] unit_type = "TIME" -> "IfcQuantityTime"

\* _convert_count_value, the fallback: the int, else the float
int_or_float(int_val, value) == IF int_val # NoneRaw THEN int_val ELSE as_float(value)

\* _convert_count_value
convert_count_value(value) == int_or_float(as_int(value), value)

\* QUANTITY_CONFIG[unit_type].convert_func(value)
convert_func(unit_type, value) == IF unit_type = COUNT THEN convert_count_value(value) ELSE as_float(value)

\* what an integer attribute of the file holds after an assignment
stored_count(value) == IF value.k = "bool" THEN RInt(IF value.b THEN 1 ELSE 0) ELSE value

\* ----------------------------------------------------------- IosPSetAdapter

\* the result of an add: [ok, c, id, err]; id 0 for a returned None
AddNone(c) == [ok |-> TRUE, c |-> c, id |-> 0, err |-> ""]
AddRaise(c) == [ok |-> FALSE, c |-> c, id |-> 0, err |-> "IfcAdapterError"]

\* the new property appended to HasProperties, with the unit that was
\* found or created as its Unit
append_property(pset_id, prop_id, unit) ==
    LET with_unit == IF unit.unit # 0 THEN [unit.c EXCEPT !.ents[prop_id].Unit = unit.unit] ELSE unit.c
    IN [ok |-> TRUE, c |-> mark_modified([with_unit EXCEPT !.ents[pset_id].HasProperties = Append(@, prop_id)]), id |-> prop_id, err |-> ""]

\* _add_single_value_property, the unit of the created property
add_single_made(pset_id, ifc_value, prop) ==
    append_property(pset_id, prop.id,
                    IF ifc_value.unit_type \notin {UNKNOWN, COUNT}
                    THEN get_or_create_unit(prop.c, ifc_value.unit_type, ifc_value.prefix)
                    ELSE [c |-> prop.c, unit |-> 0])

\* _add_single_value_property, the creation of the IfcPropertySingleValue
add_single_held(c, pset_id, name, ifc_value, holder) ==
    IF ~holder.ok THEN AddRaise(c)
    ELSE add_single_made(pset_id, ifc_value,
                         create_entity(holder.c, [Blank EXCEPT !.type = "IfcPropertySingleValue", !.Name = name, !.NominalValue = holder.id]))

\* _add_single_value_property
add_single_value_property(c, pset_id, name, ifc_value) ==
    add_single_held(c, pset_id, name, ifc_value, create_ifc_value_entity(c, ifc_value))

\* the new quantity appended to Quantities
append_quantity(qto_id, prop) ==
    [ok |-> TRUE, c |-> mark_modified([prop.c EXCEPT !.ents[qto_id].Quantities = Append(@, prop.id)]), id |-> prop.id, err |-> ""]

\* _add_quantity_property, the creation of the quantity entity
add_quantity_united(qto_id, name, ifc_value, entity_value, unit) ==
    append_quantity(qto_id,
                    create_entity(unit.c, [Blank EXCEPT !.type = qto_type(ifc_value.unit_type), !.Name = name,
                                                        !.value = IF ifc_value.unit_type = COUNT THEN stored_count(entity_value) ELSE entity_value,
                                                        !.Unit = unit.unit]))

\* _add_quantity_property, the unit of the converted value
add_quantity_converted(c, qto_id, name, ifc_value, entity_value) ==
    IF entity_value = NoneRaw THEN AddRaise(c)
    ELSE add_quantity_united(qto_id, name, ifc_value, entity_value,
                             IF ifc_value.unit_type \notin {COUNT, UNKNOWN}
                             THEN get_or_create_unit(c, ifc_value.unit_type, ifc_value.prefix)
                             ELSE [c |-> c, unit |-> 0])

\* _add_quantity_property
add_quantity_property(c, qto_id, name, ifc_value) ==
    IF ifc_value.unit_type \notin ConfiguredUnitTypes THEN AddRaise(c)
    ELSE add_quantity_converted(c, qto_id, name, ifc_value, convert_func(ifc_value.unit_type, ifc_value.value))

\* the ids of a sequence of entities that carry the name
named(es, seq, name) == {k \in 1..Len(seq) : es[seq[k]].Name = name}

\* a plausible bug: the name is not looked up in the set
add_property_to_pset_again(c, pset_id, name, ifc_value) ==
    IF pset_id \notin DOMAIN c.ents THEN AddNone(c)
    ELSE IF is_a(c.ents[pset_id], "IfcElementQuantity")
         THEN (IF ifc_value.unit_type \in {UNKNOWN} THEN AddNone(c) ELSE add_quantity_property(c, pset_id, name, ifc_value))
    ELSE IF is_a(c.ents[pset_id], "IfcPropertySet") THEN add_single_value_property(c, pset_id, name, ifc_value)
    ELSE AddNone(c)

\* add_property_to_pset
add_property_to_pset(c, pset_id, name, ifc_value) ==
    IF pset_id \notin DOMAIN c.ents THEN AddNone(c)
    ELSE LET pset_entity == c.ents[pset_id]
             is_qto == is_a(pset_entity, "IfcElementQuantity")
             prop_list == IF is_qto THEN pset_entity.Quantities ELSE pset_entity.HasProperties
         IN IF ~is_qto /\ ~is_a(pset_entity, "IfcPropertySet") THEN AddNone(c)
            ELSE IF named(c.ents, prop_list, name) # {} THEN AddNone(c)
            ELSE IF is_qto
                 THEN IF ifc_value.unit_type \in {UNKNOWN} THEN AddNone(c)
                      ELSE add_quantity_property(c, pset_id, name, ifc_value)
                 ELSE add_single_value_property(c, pset_id, name, ifc_value)

\* ------------------------------------------------------- IosPropertyAdapter

\* the result of set_value: [ok, ret, failed, c, err]; ok is FALSE for a
\* raised IfcAdapterError, failed is TRUE where a ValueError or TypeError
\* was caught and False returned
SetRaise(c) == [ok |-> FALSE, ret |-> FALSE, failed |-> FALSE, c |-> c, err |-> "IfcAdapterError"]
SetFailed(c) == [ok |-> TRUE, ret |-> FALSE, failed |-> TRUE, c |-> c, err |-> ""]
SetDone(c, ret) == [ok |-> TRUE, ret |-> ret, failed |-> FALSE, c |-> c, err |-> ""]

\* the comparison of the old and the new NominalValue
same_nominal(old, new) ==
    /\ old.type = new.type
    /\ IF new.value.k = "float" /\ old.value.k = "float" THEN is_close(old.value, new.value)
       ELSE PyEq(old.value, new.value)

\* the unit part of set_value, the assignment: the Unit attribute follows
\* the unit entity of the incoming Value; [c, changed]
assign_unit(property_id, unit) ==
    IF unit.unit # unit.c.ents[property_id].Unit
    THEN [c |-> [unit.c EXCEPT !.ents[property_id].Unit = unit.unit], changed |-> TRUE]
    ELSE [c |-> unit.c, changed |-> FALSE]

\* the unit part of set_value
update_unit(c, property_id, unit_type, prefix) == assign_unit(property_id, get_or_create_unit(c, unit_type, prefix))

\* the return of set_value: mark_modified() where something changed
finish_set(needs_value_update, united) ==
    IF needs_value_update \/ united.changed THEN SetDone(mark_modified(united.c), TRUE) ELSE SetDone(united.c, FALSE)

\* a plausible bug: the replaced holder, and the unneeded new one, stay in
\* the model
replace_nominal_kept(c, property_id, holder, needs_value_update) ==
    IF needs_value_update THEN [holder.c EXCEPT !.ents[property_id].NominalValue = holder.id] ELSE holder.c

\* the NominalValue after the comparison: the new holder replaces the old
\* one, which is removed; an unneeded new holder is removed again
replace_nominal(c, property_id, holder, needs_value_update) ==
    LET old_nominal_value == c.ents[property_id].NominalValue
        put == [holder.c EXCEPT !.ents[property_id].NominalValue = holder.id]
    IN IF needs_value_update
       THEN (IF old_nominal_value # 0 THEN remove_entity(put, old_nominal_value) ELSE put)
       ELSE remove_entity(holder.c, holder.id)

set_single_compared(c, property_id, value, holder, needs_value_update) ==
    finish_set(needs_value_update,
               update_unit(replace_nominal(c, property_id, holder, needs_value_update), property_id, value.unit_type, value.prefix))

set_single_held(c, property_id, value, holder) ==
    IF ~holder.ok THEN SetRaise(c)
    ELSE set_single_compared(c, property_id, value, holder,
                             c.ents[property_id].NominalValue = 0
                                 \/ ~same_nominal(c.ents[c.ents[property_id].NominalValue], holder.c.ents[holder.id]))

\* set_value, the branch of an IfcPropertySingleValue
set_single_value(c, property_id, value) == set_single_held(c, property_id, value, create_ifc_value_entity(c, value))

\* the value set_value converts for a quantity entity, and the unit type it
\* expects
target_for(unit_type, value) == [expected_unit |-> unit_type, converted_value |-> convert_func(unit_type, value.value)]

\* the unit type set_value converts by: the Value's, when QUANTITY_CONFIG
\* gives it the entity's quantity type, else the one of the entity's type
quantity_target(entity, value) ==
    target_for(IF value.unit_type \in ConfiguredUnitTypes /\ is_a(entity, qto_type(value.unit_type))
               THEN value.unit_type ELSE shape_unit_type(entity),
               value)

\* the value attribute after the comparison
put_value(c, property_id, target, needs_value_update) ==
    IF needs_value_update
    THEN [c EXCEPT !.ents[property_id].value = IF c.ents[property_id].type = "IfcQuantityCount" THEN stored_count(target.converted_value) ELSE target.converted_value]
    ELSE c

set_quantity_compared(c, property_id, value, target, needs_value_update) ==
    finish_set(needs_value_update,
               IF target.expected_unit # COUNT
               THEN update_unit(put_value(c, property_id, target, needs_value_update), property_id, value.unit_type, value.prefix)
               ELSE [c |-> put_value(c, property_id, target, needs_value_update), changed |-> FALSE])

set_quantity_converted(c, property_id, value, target) ==
    IF target.converted_value = NoneRaw THEN SetFailed(c)
    ELSE set_quantity_compared(c, property_id, value, target,
                               c.ents[property_id].value = NoneRaw \/ ~is_close(c.ents[property_id].value, target.converted_value))

\* set_value, the branch of the quantities
set_quantity_value(c, property_id, value) ==
    IF c.ents[property_id].type \notin QuantityTypes THEN SetDone(c, FALSE)
    ELSE set_quantity_converted(c, property_id, value, quantity_target(c.ents[property_id], value))

\* IosPropertyAdapter.set_value
set_value(c, property_id, value) ==
    IF property_id \notin DOMAIN c.ents THEN SetRaise(c)
    ELSE IF ~is_property_or_quantity(c.ents[property_id]) THEN SetRaise(c)
    ELSE IF is_a(c.ents[property_id], "IfcPropertySingleValue") THEN set_single_value(c, property_id, value)
    ELSE set_quantity_value(c, property_id, value)

\* ------------------------------------------------------ IosObjectAdapter

\* the entity types that carry the inverse attribute IsDefinedBy
ObjectTypes == {"IfcWall"}

\* entity.IsDefinedBy: the relationships that list the entity among their
\* RelatedObjects
IsDefinedBy(es, id) ==
    IF es[id].type \notin ObjectTypes THEN {}
    ELSE {r \in DOMAIN es : es[r].type = "IfcRelDefinesByProperties" /\ named_in(es[r].RelatedObjects, id)}

\* the relationships of an entity that relate it to a property set or,
\* where asked for, to an element quantity
defining_rels(es, base_id, include_qto) ==
    {r \in IsDefinedBy(es, base_id) :
        /\ es[r].RelatingPropertyDefinition # 0
        /\ \/ is_a(es[es[r].RelatingPropertyDefinition], "IfcPropertySet")
           \/ include_qto /\ is_a(es[es[r].RelatingPropertyDefinition], "IfcElementQuantity")}

\* IosObjectBaseAdapter.get_psets: the ids of the sets of an entity
get_psets(es, base_id, include_qto) ==
    IF base_id \notin DOMAIN es THEN {}
    ELSE {es[r].RelatingPropertyDefinition : r \in defining_rels(es, base_id, include_qto)}

\* the first relationship of an entity to a set of the name, or 0
rel_by_name(es, base_id, pset_name) ==
    LET hits == {r \in defining_rels(es, base_id, TRUE) : es[es[r].RelatingPropertyDefinition].Name = pset_name}
    IN IF hits = {} THEN 0 ELSE CHOOSE r \in hits : \A q \in hits : r <= q

\* IosObjectBaseAdapter.get_pset_by_name: the id of the set, or 0 for None
get_pset_by_name(es, base_id, pset_name) ==
    IF base_id \notin DOMAIN es THEN 0
    ELSE IF rel_by_name(es, base_id, pset_name) = 0 THEN 0
    ELSE es[rel_by_name(es, base_id, pset_name)].RelatingPropertyDefinition

\* IosPSetAdapter.get_properties: the ids of the properties or quantities
\* of a set
get_properties(es, pset_id) ==
    IF pset_id \notin DOMAIN es THEN <<>>
    ELSE IF is_a(es[pset_id], "IfcPropertySet") THEN SelectSeq(es[pset_id].HasProperties, LAMBDA p : is_property_or_quantity(es[p]))
    ELSE IF is_a(es[pset_id], "IfcElementQuantity") THEN SelectSeq(es[pset_id].Quantities, LAMBDA p : is_property_or_quantity(es[p]))
    ELSE <<>>

\* the result of add_new_pset_to: [c, id]; id 0 for a returned None
PsetNone(c) == [c |-> c, id |-> 0]

RECURSIVE add_properties(_, _, _, _)

\* add_new_pset_to, one round of the loop: success stays TRUE while every
\* add returns a model
added_one(pset_id, rest, success, r) == add_properties(r.c, pset_id, rest, success /\ r.ok /\ r.id # 0)

\* add_new_pset_to, the loop over pset_definition.properties: [c, success]
add_properties(c, pset_id, properties, success) ==
    IF properties = <<>> THEN [c |-> c, success |-> success]
    ELSE added_one(pset_id, Tail(properties), success,
                   add_property_to_pset(c, pset_id, Head(properties).name, Head(properties).ifc_value))

\* add_new_pset_to, after the loop: where an add failed the relationship and
\* the set are removed and None is returned
added_all(loop, rel_id, pset_id) ==
    IF ~loop.success THEN PsetNone(remove_entity(remove_entity(loop.c, rel_id), pset_id))
    ELSE [c |-> mark_modified(loop.c), id |-> pset_id]

\* add_new_pset_to, with the created relationship
add_related(rel, pset_id, pset_definition) ==
    added_all(add_properties(rel.c, pset_id, pset_definition.properties, TRUE), rel.id, pset_id)

\* add_new_pset_to, with the created set
add_created(base_id, pset_definition, pset) ==
    add_related(create_entity(pset.c, [Blank EXCEPT !.type = "IfcRelDefinesByProperties",
                                                    !.RelatedObjects = <<base_id>>,
                                                    !.RelatingPropertyDefinition = pset.id]),
                pset.id, pset_definition)

\* IosObjectBaseAdapter.add_new_pset_to
add_new_pset_to(c, base_id, pset_definition) ==
    IF base_id \notin DOMAIN c.ents THEN PsetNone(c)
    ELSE IF get_pset_by_name(c.ents, base_id, pset_definition.name) # 0 THEN PsetNone(c)
    ELSE add_created(base_id, pset_definition,
                     create_entity(c, [Blank EXCEPT !.type = IF pset_definition.kind = "QuantitySet" THEN "IfcElementQuantity" ELSE "IfcPropertySet",
                                                    !.Name = pset_definition.name]))

\* the result of remove_pset_from: [c, ret]
Removed(c, ret) == [c |-> c, ret |-> ret]

\* remove_pset_from, a relationship shared with other objects: the entity
\* leaves its RelatedObjects
remove_shared(c, base_id, rel_id, new_objects) ==
    IF Len(new_objects) < Len(c.ents[rel_id].RelatedObjects)
    THEN Removed(mark_modified(IF new_objects = <<>>
                               THEN remove_entity([c EXCEPT !.ents[rel_id].RelatedObjects = new_objects], rel_id)
                               ELSE [c EXCEPT !.ents[rel_id].RelatedObjects = new_objects]),
                 TRUE)
    ELSE Removed(c, FALSE)

\* a plausible bug: a relationship of the entity alone is left in place
remove_found_kept(c, base_id, rel_id) ==
    IF rel_id = 0 THEN Removed(c, FALSE)
    ELSE IF Len(c.ents[rel_id].RelatedObjects) > 1
         THEN remove_shared(c, base_id, rel_id, Without(c.ents[rel_id].RelatedObjects, base_id))
         ELSE Removed(mark_modified(c), TRUE)

\* remove_pset_from, with the relationship that was found
remove_found(c, base_id, rel_id) ==
    IF rel_id = 0 THEN Removed(c, FALSE)
    ELSE IF Len(c.ents[rel_id].RelatedObjects) > 1
         THEN remove_shared(c, base_id, rel_id, Without(c.ents[rel_id].RelatedObjects, base_id))
         ELSE Removed(mark_modified(remove_entity(c, rel_id)), TRUE)

\* IosObjectBaseAdapter.remove_pset_from
remove_pset_from(c, base_id, pset_name) ==
    IF base_id \notin DOMAIN c.ents THEN Removed(c, FALSE)
    ELSE remove_found(c, base_id, rel_by_name(c.ents, base_id, pset_name))

\* the result of a removal: [ok, c, ret]; ok is FALSE for a raised
\* IfcAdapterError
NotRemoved(c) == [ok |-> TRUE, c |-> c, ret |-> FALSE]

\* a plausible bug: the value holder of the property is left behind
remove_listed_only(c, prop_id) == remove_entity(c, prop_id)

\* remove_property_from_pset, the removal of the entities: the value holder
\* of a single-value property, then the property
remove_listed(c, prop_id) ==
    remove_entity(IF is_a(c.ents[prop_id], "IfcPropertySingleValue") /\ c.ents[prop_id].NominalValue # 0
                  THEN remove_entity(c, c.ents[prop_id].NominalValue)
                  ELSE c,
                  prop_id)

\* remove_property_from_pset, with the first property of the name, or 0:
\* the list loses the property before the entities are removed
remove_named(c, pset_id, prop_id) ==
    IF prop_id = 0 THEN NotRemoved(c)
    ELSE [ok |-> TRUE,
          c |-> mark_modified(remove_listed([c EXCEPT !.ents[pset_id].HasProperties = Without(@, prop_id),
                                                      !.ents[pset_id].Quantities = Without(@, prop_id)],
                                            prop_id)),
          ret |-> TRUE]

\* IosPSetAdapter.remove_property_from_pset
remove_property_from_pset(c, pset_id, prop_name) ==
    IF pset_id \notin DOMAIN c.ents THEN [ok |-> FALSE, c |-> c, ret |-> FALSE]
    ELSE IF is_a(c.ents[pset_id], "IfcElementQuantity")
         THEN remove_named(c, pset_id, first_of(c.ents[pset_id].Quantities, named(c.ents, c.ents[pset_id].Quantities, prop_name)))
    ELSE IF is_a(c.ents[pset_id], "IfcPropertySet")
         THEN remove_named(c, pset_id, first_of(c.ents[pset_id].HasProperties, named(c.ents, c.ents[pset_id].HasProperties, prop_name)))
    ELSE NotRemoved(c)

\* IosObjectBaseAdapter.get_property: the id of the property of the name in
\* the set of the name, or 0 for None
get_property(es, base_id, pset_name, prop_name) ==
    IF get_pset_by_name(es, base_id, pset_name) = 0 THEN 0
    ELSE first_of(get_properties(es, get_pset_by_name(es, base_id, pset_name)),
                  named(es, get_properties(es, get_pset_by_name(es, base_id, pset_name)), prop_name))

\* the object adapter's add_property_to_pset, after the set adapter
\* returned: every exception is caught and None returned
object_added(r) ==
    IF r.ok /\ r.id # 0 THEN [c |-> mark_modified(r.c), id |-> r.id] ELSE PsetNone(r.c)

\* IosObjectBaseAdapter.add_property_to_pset
object_add_property_to_pset(c, base_id, pset_name, name, ifc_value) ==
    IF get_pset_by_name(c.ents, base_id, pset_name) = 0 THEN PsetNone(c)
    ELSE object_added(add_property_to_pset(c, get_pset_by_name(c.ents, base_id, pset_name), name, ifc_value))

\* the object adapter's remove_property_from_pset, after the set adapter
\* returned
object_removed(r) ==
    IF r.ok /\ r.ret THEN Removed(mark_modified(r.c), TRUE) ELSE Removed(r.c, FALSE)

\* IosObjectBaseAdapter.remove_property_from_pset
object_remove_property_from_pset(c, base_id, pset_name, prop_name) ==
    IF get_pset_by_name(c.ents, base_id, pset_name) = 0 THEN Removed(c, FALSE)
    ELSE object_removed(remove_property_from_pset(c, get_pset_by_name(c.ents, base_id, pset_name), prop_name))

\* IosBaseAdapter.set_attribute, of the attribute Name, which a unit
\* assignment and a value holder do not have: [ok, c, ret]
set_attribute(c, entity_id, value) ==
    IF entity_id \notin DOMAIN c.ents THEN [ok |-> FALSE, c |-> c, ret |-> FALSE]
    ELSE IF c.ents[entity_id].type \in ValueHolderTypes \cup {"IfcUnitAssignment"} THEN [ok |-> TRUE, c |-> c, ret |-> FALSE]
    ELSE [ok |-> TRUE, c |-> mark_modified([c EXCEPT !.ents[entity_id].Name = value]), ret |-> TRUE]

\* ------------------------------------------------- calls of pure functions

NoCall == [fn |-> "none"]

\* the longest int tried as a raw value
MaxInt == 3

\* raw values handed to the factory and to the constructor
RawInputs ==
    {NoneRaw, RBool(TRUE), RBool(FALSE)}
    \cup {RInt(n) : n \in 0..MaxInt}
    \cup {RFloat(0, 0), RFloat(10, 0), RFloat(10, 1), RFloat(30, 0), RFloat(35, 0), RFloat(255, 0)}
    \cup {RStr(x) : x \in {"3", "3.5", "25.5", "abc", "", "true", "YES", "nein", "1"}}

ValueTypeArgs == {NotSupplied} \cup {Member(m) : m \in IfcValueType} \cup {AsStr(x) : x \in {"IfcReal", "IfcCountMeasure", "bogus"}}

UnitTypeArgs == {NotSupplied} \cup {Member(m) : m \in {UNKNOWN, COUNT, "LENGTH", "MASS"}} \cup {AsStr(x) : x \in {"COUNT", "length", "MASSUNIT", "bogus"}}

PrefixArgs == {NotSupplied} \cup {Member(m) : m \in {"NONE", "KILO", "MILLI"}} \cup {AsStr(x) : x \in {"", "KILO", "kilo", "bogus"}}

NoOut == [ok |-> FALSE, pending |-> TRUE]

\* IfcValue(...) called directly
Construct ==
    /\ call.fn = "IfcValue" /\ ~call.done
    /\ call' = [call EXCEPT !.done = TRUE, !.out = IfcValue(call.value, call.value_type, call.unit_type, call.prefix)]
    /\ UNCHANGED <<ents, nextId, is_modified, last, persisted, calls, file_path, disk>>

\* ValueFactory.create(...)
Create ==
    /\ call.fn = "create" /\ ~call.done
    /\ call' = [call EXCEPT !.done = TRUE, !.out = create(call.value, call.value_type, call.unit_type, call.prefix)]
    /\ UNCHANGED <<ents, nextId, is_modified, last, persisted, calls, file_path, disk>>

\* IosPropertyAdapter.get_value(property_id) on the model of the state
Resolve ==
    /\ call.fn = "get_value" /\ ~call.done
    /\ call' = [call EXCEPT !.done = TRUE, !.out = get_value(ents, call.arg)]
    /\ UNCHANGED <<ents, nextId, is_modified, last, persisted, calls, file_path, disk>>

\* ------------------------------------------------------------ validation

\* ALLOWED_QUANTITY_UNIT_TYPES: a set of members, COUNT being UNKNOWN
ALLOWED_QUANTITY_UNIT_TYPES == {"AREA", COUNT, "ENERGY", "LENGTH", "MASS", "PLANEANGLE", "POWER", "TEMPERATURE", "TIME", "VOLUME", "PRESSURE"}

NUMERIC_VALUE_TYPES == {"INTEGER", "REAL"}

\* a Property with an ifc_value; one without reads as unit type UNKNOWN
\* and value type None
has_value(prop) == "ifc_value" \in DOMAIN prop

Valid == [ok |-> TRUE, err |-> ""]
Invalid == [ok |-> FALSE, err |-> "ValidationError"]

\* _validate_quantity_set_properties, one round of its loop:
\* _validate_qset_property_unit_type, then _validate_qset_property_value_type
validate_qset_property(prop) ==
    IF ~has_value(prop) THEN Invalid
    ELSE IF prop.ifc_value.unit_type \notin ALLOWED_QUANTITY_UNIT_TYPES THEN Invalid
    ELSE IF prop.ifc_value.value_type \notin NUMERIC_VALUE_TYPES THEN Invalid
    ELSE Valid

\* _validate_property_set_properties, one round of its loop:
\* _validate_pset_property_unit_value_consistency
validate_pset_property(prop) ==
    IF ~has_value(prop) THEN Valid
    ELSE IF prop.ifc_value.unit_type # UNKNOWN /\ prop.ifc_value.value_type \notin NUMERIC_VALUE_TYPES THEN Invalid
    ELSE Valid

\* the loops stop at the first property that raises
validate_properties(kind, properties) ==
    IF \E k \in 1..Len(properties) :
          ~(IF kind = "QuantitySet" THEN validate_qset_property(properties[k]) ELSE validate_pset_property(properties[k])).ok
    THEN Invalid ELSE Valid

\* validate_pset_definition, called by __post_init__ of PropertySet and of
\* QuantitySet
validate_pset_definition(pset_def) ==
    IF pset_def.name = "" \/ str_strip(pset_def.name) = "" THEN Invalid
    ELSE IF \E j \in 1..Len(pset_def.properties), k \in 1..Len(pset_def.properties) :
               j # k /\ pset_def.properties[j].name = pset_def.properties[k].name THEN Invalid
    ELSE validate_properties(pset_def.kind, pset_def.properties)

\* the properties the constructed definitions are made of; the last one
\* has no ifc_value
DefinitionValues ==
    {IfcValue(RInt(1), "INTEGER", UNKNOWN, "NONE").v, IfcValue(RStr("a"), "TEXT", UNKNOWN, "NONE").v,
     IfcValue(RFloat(10, 0), "REAL", "LENGTH", "NONE").v, IfcValue(RStr("a"), "TEXT", "LENGTH", "NONE").v,
     IfcValue(RInt(1), "INTEGER", IfcUnitType_by_name("COUNT"), "NONE").v, IfcValue(RBool(TRUE), "LOGICAL", "MASS", "NONE").v}

DefinitionProperties ==
    {[name |-> name, ifc_value |-> v] : name \in {"p", "q"}, v \in DefinitionValues} \cup {[name |-> "p"]}

\* PropertySet(name, properties) / QuantitySet(name, properties): the
\* definition exists where __post_init__ raised nothing
Define ==
    /\ call.fn = "define" /\ ~call.done
    /\ call' = [call EXCEPT !.done = TRUE, !.out = validate_pset_definition(call.definition)]
    /\ UNCHANGED <<ents, nextId, is_modified, last, persisted, calls, file_path, disk>>

\* the names of IfcUnitType, the alias included
UnitTypeNames == IfcUnitType \cup {"COUNT"}

\* the Value a test builds from literals: IfcValue(value, value_type, IfcUnitType.<name>, prefix)
Literal(l) == IfcValue(l.value, l.value_type, IfcUnitType_by_name(l.unit_type), l.prefix).v

\* the literals compared: two raw values, two value types, every unit type
\* name and two prefixes
Literals == [value : {RInt(1), RStr("a")}, value_type : {"INTEGER", "TEXT"}, unit_type : UnitTypeNames, prefix : {"NONE", "KILO"}]

\* a == b for two Values
Compare ==
    /\ call.fn = "eq" /\ ~call.done
    /\ call' = [call EXCEPT !.done = TRUE, !.out = IfcValue_eq(Literal(call.a), Literal(call.b))]
    /\ UNCHANGED <<ents, nextId, is_modified, last, persisted, calls, file_path, disk>>

NextFactory == Construct \/ Create \/ Resolve \/ Compare \/ Define

\* looked-up tokens: None, "", and up to MaxFrags fragments in a row
Fragments == {"Ifc", "Real", "Count", "Measure", "MEASURE", "Boolean", "Logical", "LENGTH", "UNIT", "unit", "Mass", "Area"}

RECURSIVE Concats(_)
Concats(k) == IF k = 0 THEN {""} ELSE Concats(k - 1) \cup {t \o f : t \in Concats(k - 1), f \in Fragments}

Tokens ==
    Concats(MaxFrags) \cup {None}
        \cup {"IfcSomeWeirdMeasure", "BOGUS", "IfcText", "IFCREAL", "ifcboolean", "IfcLengthMeasure", "IfcBooleanMeasure", "IfcPlaneAngleMeasure", "ThermodynamicTemperatureUnit", "KILO", "kilo", "Milli"}

LookupUnitEnum ==
    /\ call.fn = "from_ifc_unit_enum" /\ ~call.done
    /\ call' = [call EXCEPT !.done = TRUE, !.out = from_ifc_unit_enum(call.arg)]
    /\ UNCHANGED <<ents, nextId, is_modified, last, persisted, calls, file_path, disk>>

LookupMeasure ==
    /\ call.fn = "from_measure_type" /\ ~call.done
    /\ call' = [call EXCEPT !.done = TRUE, !.out = from_measure_type(call.arg)]
    /\ UNCHANGED <<ents, nextId, is_modified, last, persisted, calls, file_path, disk>>

LookupValueType ==
    /\ call.fn = "IfcValueType" /\ ~call.done
    /\ call' = [call EXCEPT !.done = TRUE, !.out = IfcValueType_call(call.arg)]
    /\ UNCHANGED <<ents, nextId, is_modified, last, persisted, calls, file_path, disk>>

LookupPrefix ==
    /\ call.fn = "IfcPrefix" /\ ~call.done
    /\ call' = [call EXCEPT !.done = TRUE, !.out = IfcPrefix_call(call.arg)]
    /\ UNCHANGED <<ents, nextId, is_modified, last, persisted, calls, file_path, disk>>

NextTokens == LookupUnitEnum \/ LookupMeasure \/ LookupValueType \/ LookupPrefix

\* -------------------------------------------------------- adapter calls

NoLast == [op |-> "none"]

\* the paths a model is saved to and opened from
Paths == {"a.ifc", "b.ifc"}

NoFile == [exists |-> FALSE, ents |-> <<>>]

\* a file system without files
NoFiles == [path \in Paths |-> NoFile]

\* the id of the first entity created after the initial model
FirstNewId == 14

\* An initial model as the test file has it (tests/data/generate_test_ifc.py):
\* a property set with the text property "TestProperty", an element quantity
\* with the length quantity "Width" (no Unit) and a count quantity, two walls,
\* the first related to the property set by a relationship of its own and to
\* the element quantity by a relationship it shares with the second, and one of
\*   "none"     no IfcProject
\*   "bare"     an IfcProject without UnitsInContext
\*   "units"    an IfcProject whose unit assignment holds the METRE
InitialModel(root) ==
    LET body == (4 :> [Blank EXCEPT !.type = "IfcText", !.value = RStr("a")])
             @@ (5 :> [Blank EXCEPT !.type = "IfcPropertySingleValue", !.Name = "TestProperty", !.NominalValue = 4])
             @@ (6 :> [Blank EXCEPT !.type = "IfcPropertySet", !.Name = "Test_PropertySet", !.HasProperties = <<5>>])
             @@ (7 :> [Blank EXCEPT !.type = "IfcQuantityLength", !.Name = "Width", !.value = RFloat(10, 0)])
             @@ (8 :> [Blank EXCEPT !.type = "IfcQuantityCount", !.Name = "Count", !.value = RInt(1)])
             @@ (9 :> [Blank EXCEPT !.type = "IfcElementQuantity", !.Name = "Qto", !.Quantities = <<7, 8>>])
             @@ (10 :> [Blank EXCEPT !.type = "IfcWall", !.Name = "Test Wall Element"])
             @@ (11 :> [Blank EXCEPT !.type = "IfcWall", !.Name = "Second Wall"])
             @@ (12 :> [Blank EXCEPT !.type = "IfcRelDefinesByProperties", !.RelatedObjects = <<10>>, !.RelatingPropertyDefinition = 6])
             @@ (13 :> [Blank EXCEPT !.type = "IfcRelDefinesByProperties", !.RelatedObjects = <<10, 11>>, !.RelatingPropertyDefinition = 9])
        project == 1 :> [Blank EXCEPT !.type = "IfcProject", !.Name = "Test Project", !.UnitsInContext = IF root = "units" THEN 2 ELSE 0]
        units == (2 :> [Blank EXCEPT !.type = "IfcUnitAssignment", !.Units = <<3>>])
              @@ (3 :> [Blank EXCEPT !.type = "IfcSIUnit", !.UnitType = "LENGTHUNIT", !.Name = "METRE"])
    IN IF root = "none" THEN body ELSE IF root = "bare" THEN project @@ body ELSE project @@ units @@ body

\* the Values written to the store; the last one is built directly with a
\* raw value that float() does not take
WriteValues ==
    {IfcValue(RFloat(10, 0), "REAL", UNKNOWN, "NONE").v, IfcValue(RFloat(10, 0), "REAL", "LENGTH", "NONE").v,
     IfcValue(RFloat(10, 0), "REAL", "MASS", "NONE").v, IfcValue(RFloat(10, 0), "REAL", "MASS", "KILO").v,
     IfcValue(RFloat(10, 1), "REAL", "LENGTH", "NONE").v, IfcValue(RFloat(25, 0), "REAL", "LENGTH", "NONE").v,
     IfcValue(RInt(1), "INTEGER", COUNT, "NONE").v, IfcValue(RBool(FALSE), "LOGICAL", UNKNOWN, "NONE").v,
     IfcValue(RBool(TRUE), "BOOLEAN", UNKNOWN, "NONE").v, IfcValue(RBool(FALSE), "BOOLEAN", UNKNOWN, "NONE").v,
     IfcValue(RStr("a"), "TEXT", UNKNOWN, "NONE").v, IfcValue(RStr("a"), "REAL", "LENGTH", "NONE").v}

\* the Value written where the target of the call is what matters
AnyValue == IfcValue(RFloat(10, 0), "REAL", "LENGTH", "NONE").v

Holders(es) == {i \in DOMAIN es : es[i].type \in ValueHolderTypes}
Units(es) == {i \in DOMAIN es : es[i].type = "IfcSIUnit"}
Properties(es) == {i \in DOMAIN es : is_property_or_quantity(es[i])}

\* what a call saw before it ran
Pre(property_id) ==
    [got |-> IF property_id \in DOMAIN ents THEN get_value(ents, property_id).got ELSE NoneValue,
     entity |-> IF property_id \in DOMAIN ents THEN ents[property_id] ELSE Blank,
     holders |-> Cardinality(Holders(ents)), units |-> Cardinality(Units(ents)), is_modified |-> is_modified]

Commit(c) == ents' = c.ents /\ nextId' = c.nextId /\ is_modified' = c.is_modified

\* One call of a behaviour is recorded in "last", with what it was given,
\* what it returned and what it saw; the calls before it build the model.
Ready == last = NoLast /\ calls < MaxCalls

Recorded(observe, record) == last' = (IF observe THEN record ELSE NoLast) /\ calls' = calls + 1

SetValueReturned(property_id, value, observe, r) ==
    /\ Commit(r.c)
    /\ Recorded(observe, [op |-> "set_value", pid |-> property_id, v |-> value, ok |-> r.ok, ret |-> r.ret, failed |-> r.failed, pre |-> Pre(property_id)])
    /\ persisted' = IF r.ok /\ ~r.failed THEN (property_id :> <<value.unit_type, value.prefix>>) @@ persisted ELSE persisted

\* IosPropertyAdapter.set_value(property_id, value)
SetValue(property_id, value, observe) ==
    /\ Ready
    /\ SetValueReturned(property_id, value, observe, set_value(Ctx(ents, nextId, is_modified), property_id, value))
    /\ UNCHANGED <<call, file_path, disk>>

AddPropertyReturned(pset_id, value, observe, r) ==
    /\ Commit(r.c)
    /\ Recorded(observe, [op |-> "add", pid |-> r.id, pset |-> pset_id, v |-> value, ok |-> r.ok, ret |-> r.id # 0, failed |-> FALSE, pre |-> Pre(0)])
    /\ persisted' = IF r.id # 0 THEN (r.id :> <<value.unit_type, value.prefix>>) @@ persisted ELSE persisted

\* IosPSetAdapter.add_property_to_pset(pset_id, Property(name, value))
AddProperty(pset_id, name, value, observe) ==
    /\ Ready
    /\ AddPropertyReturned(pset_id, value, observe, add_property_to_pset(Ctx(ents, nextId, is_modified), pset_id, name, value))
    /\ UNCHANGED <<call, file_path, disk>>

GetOrCreateUnitReturned(unit_type, prefix, observe, r) ==
    /\ Commit(r.c)
    /\ Recorded(observe, [op |-> "get_or_create_unit", unit_type |-> unit_type, prefix |-> prefix, unit |-> r.unit])

\* IosValueUnitHandler.get_or_create_unit(unit_type, prefix)
GetOrCreateUnit(unit_type, prefix, observe) ==
    /\ Ready
    /\ GetOrCreateUnitReturned(unit_type, prefix, observe, get_or_create_unit(Ctx(ents, nextId, is_modified), unit_type, prefix))
    /\ UNCHANGED <<call, persisted, file_path, disk>>

Next ==
    \/ \E property_id \in Properties(ents), value \in WriteValues, observe \in BOOLEAN : SetValue(property_id, value, observe)
    \/ \E property_id \in {0, 6} : SetValue(property_id, AnyValue, TRUE)
    \/ \E pset_id \in {6, 9}, value \in WriteValues, observe \in BOOLEAN : AddProperty(pset_id, "New", value, observe)
    \/ \E pset_id \in {0, 5, 9} : AddProperty(pset_id, "Width", AnyValue, TRUE)
    \/ \E unit_type \in {UNKNOWN, "LENGTH", "MASS"}, prefix \in {"NONE", "KILO"}, observe \in BOOLEAN : GetOrCreateUnit(unit_type, prefix, observe)

\* ------------------------------------------------- object adapter calls

\* the set definitions handed to add_new_pset_to: each passes
\* validate_pset_definition; "B" and "M" carry a Value built directly with a
\* raw value that float() does not take
PsetDefinitions ==
    LET text == [name |-> "A", ifc_value |-> IfcValue(RStr("a"), "TEXT", UNKNOWN, "NONE").v]
        flag == [name |-> "F", ifc_value |-> IfcValue(RBool(TRUE), "BOOLEAN", UNKNOWN, "NONE").v]
        bad == [name |-> "B", ifc_value |-> IfcValue(RStr("a"), "REAL", UNKNOWN, "NONE").v]
        length == [name |-> "L", ifc_value |-> IfcValue(RFloat(10, 0), "REAL", "LENGTH", "NONE").v]
        bad_length == [name |-> "M", ifc_value |-> IfcValue(RStr("a"), "REAL", "LENGTH", "NONE").v]
    IN {[kind |-> "PropertySet", name |-> "New", properties |-> ps] : ps \in {<<>>, <<text>>, <<text, flag>>, <<text, bad>>, <<bad, text>>}}
       \cup {[kind |-> "PropertySet", name |-> "Test_PropertySet", properties |-> <<text>>]}
       \cup {[kind |-> "QuantitySet", name |-> "NewQto", properties |-> ps] : ps \in {<<length>>, <<length, bad_length>>}}

\* the set names asked for and removed
PsetNames == {"Test_PropertySet", "Qto", "New", "NewQto", "Missing"}

\* what a call of the session saw before it ran
Snapshot == [ents |-> ents, is_modified |-> is_modified, file_path |-> file_path]

\* every call of a session is recorded in "last"
Running == calls < MaxCalls

Did(record) == last' = record /\ calls' = calls + 1

AddNewPsetReturned(base_id, pset_definition, r) ==
    /\ Commit(r.c)
    /\ Did([op |-> "add_new_pset_to", base |-> base_id, definition |-> pset_definition, ok |-> TRUE, id |-> r.id, pre |-> Snapshot])

\* IosObjectBaseAdapter.add_new_pset_to(base_id, pset_definition)
AddNewPset(base_id, pset_definition) ==
    /\ Running
    /\ AddNewPsetReturned(base_id, pset_definition, add_new_pset_to(Ctx(ents, nextId, is_modified), base_id, pset_definition))
    /\ UNCHANGED <<call, persisted, file_path, disk>>

RemovePsetReturned(base_id, pset_name, r) ==
    /\ Commit(r.c)
    /\ Did([op |-> "remove_pset_from", base |-> base_id, name |-> pset_name, ok |-> TRUE, ret |-> r.ret,
            pset |-> get_pset_by_name(ents, base_id, pset_name), pre |-> Snapshot])

\* IosObjectBaseAdapter.remove_pset_from(base_id, pset_name)
RemovePset(base_id, pset_name) ==
    /\ Running
    /\ RemovePsetReturned(base_id, pset_name, remove_pset_from(Ctx(ents, nextId, is_modified), base_id, pset_name))
    /\ UNCHANGED <<call, persisted, file_path, disk>>

SetAttributeReturned(entity_id, r) ==
    /\ Commit(r.c)
    /\ Did([op |-> "set_attribute", entity |-> entity_id, ok |-> r.ok, ret |-> r.ret, pre |-> Snapshot])

\* IosBaseAdapter.set_attribute(entity_id, "Name", value)
SetAttribute(entity_id, value) ==
    /\ Running
    /\ SetAttributeReturned(entity_id, set_attribute(Ctx(ents, nextId, is_modified), entity_id, value))
    /\ UNCHANGED <<call, persisted, file_path, disk>>

ChangeValueReturned(property_id, value, r) ==
    /\ Commit(r.c)
    /\ Did([op |-> "set_value", pid |-> property_id, v |-> value, ok |-> r.ok, ret |-> r.ret, pre |-> Snapshot])

\* IosPropertyAdapter.set_value(property_id, value), in a session
ChangeValue(property_id, value) ==
    /\ Running
    /\ ChangeValueReturned(property_id, value, set_value(Ctx(ents, nextId, is_modified), property_id, value))
    /\ UNCHANGED <<call, persisted, file_path, disk>>

\* IosModelContext.remove_entity(entity)
RemoveEntity(id) ==
    /\ Running
    /\ id \in DOMAIN ents
    /\ Commit(remove_entity(Ctx(ents, nextId, is_modified), id))
    /\ Did([op |-> "remove_entity", entity |-> id, ok |-> TRUE, ret |-> TRUE, pre |-> Snapshot])
    /\ UNCHANGED <<call, persisted, file_path, disk>>

\* a plausible bug: the path is assigned before the write is tried
Save_path_first(filepath, writes) ==
    /\ Running
    /\ IF filepath = None /\ file_path = None
       THEN /\ UNCHANGED <<is_modified, file_path, disk>>
            /\ Did([op |-> "save", filepath |-> filepath, ok |-> FALSE, err |-> "IfcModelContextError", pre |-> Snapshot])
       ELSE /\ file_path' = (IF filepath # None THEN filepath ELSE file_path)
            /\ IF writes
               THEN /\ disk' = [disk EXCEPT ![IF filepath # None THEN filepath ELSE file_path] = [exists |-> TRUE, ents |-> ents]]
                    /\ is_modified' = FALSE
                    /\ Did([op |-> "save", filepath |-> filepath, ok |-> TRUE, err |-> "", pre |-> Snapshot])
               ELSE /\ UNCHANGED <<is_modified, disk>>
                    /\ Did([op |-> "save", filepath |-> filepath, ok |-> FALSE, err |-> "IfcModelContextError", pre |-> Snapshot])
    /\ UNCHANGED <<ents, nextId, call, persisted>>

\* IosModelContext.save(filepath); "writes" is whether the file system takes
\* the write. A write that fails raises IfcModelContextError before the path
\* and the flag are assigned.
Save(filepath, writes) ==
    /\ Running
    /\ IF (filepath = None /\ file_path = None) \/ ~writes
       THEN /\ UNCHANGED <<is_modified, file_path, disk>>
            /\ Did([op |-> "save", filepath |-> filepath, ok |-> FALSE, err |-> "IfcModelContextError", pre |-> Snapshot])
       ELSE /\ disk' = [disk EXCEPT ![IF filepath # None THEN filepath ELSE file_path] = [exists |-> TRUE, ents |-> ents]]
            /\ file_path' = (IF filepath # None THEN filepath ELSE file_path)
            /\ is_modified' = FALSE
            /\ Did([op |-> "save", filepath |-> filepath, ok |-> TRUE, err |-> "", pre |-> Snapshot])
    /\ UNCHANGED <<ents, nextId, call, persisted>>

\* the highest id of a model
max_id(es) == CHOOSE i \in DOMAIN es : \A j \in DOMAIN es : j <= i

\* IosModelContext.open(filepath): a new context on the model of the file,
\* which numbers new entities from its highest id on; FileNotFoundError
\* where there is no file
Open(filepath) ==
    /\ Running
    /\ IF disk[filepath].exists
       THEN /\ ents' = disk[filepath].ents
            /\ nextId' = max_id(disk[filepath].ents) + 1
            /\ is_modified' = FALSE
            /\ file_path' = filepath
            /\ Did([op |-> "open", filepath |-> filepath, ok |-> TRUE, err |-> "", pre |-> Snapshot])
       ELSE /\ UNCHANGED <<ents, nextId, is_modified, file_path>>
            /\ Did([op |-> "open", filepath |-> filepath, ok |-> FALSE, err |-> "FileNotFoundError", pre |-> Snapshot])
    /\ UNCHANGED <<call, persisted, disk>>

\* IosModelContext.close(): the flag is reset; the assignment of None goes
\* to the attribute _ifc_model, which nothing reads, so ifc_model stays
Close ==
    /\ Running
    /\ is_modified' = FALSE
    /\ Did([op |-> "close", ok |-> TRUE, pre |-> Snapshot])
    /\ UNCHANGED <<ents, nextId, call, persisted, file_path, disk>>

NextObjects ==
    \/ \E base_id \in {0, 10, 11}, pset_definition \in PsetDefinitions : AddNewPset(base_id, pset_definition)
    \/ \E base_id \in {0, 10, 11}, pset_name \in PsetNames : RemovePset(base_id, pset_name)
    \/ \E entity_id \in {0, 2, 10} : SetAttribute(entity_id, "Renamed")
    \/ \E property_id \in {0, 5, 7}, value \in {IfcValue(RStr("a"), "TEXT", UNKNOWN, "NONE").v, IfcValue(RFloat(25, 0), "REAL", "LENGTH", "NONE").v} :
          ChangeValue(property_id, value)
    \/ \E id \in {6, 12} : RemoveEntity(id)
    \/ \E filepath \in Paths \cup {None}, writes \in BOOLEAN : Save(filepath, writes)
    \/ \E filepath \in Paths : Open(filepath)
    \/ Close

\* ---------------------------------------------------- property set calls

\* the Values of the properties added to the sets; the last one is built
\* directly with a raw value that float() does not take
PropertyValues ==
    {IfcValue(RStr("b"), "TEXT", UNKNOWN, "NONE").v, IfcValue(RFloat(10, 0), "REAL", "MASS", "KILO").v,
     IfcValue(RFloat(25, 0), "REAL", "LENGTH", "NONE").v, IfcValue(RInt(2), "INTEGER", COUNT, "NONE").v,
     IfcValue(RStr("a"), "REAL", "LENGTH", "NONE").v}

PsetAddReturned(pset_id, name, value, r) ==
    /\ Commit(r.c)
    /\ Did([op |-> "add_property_to_pset", via |-> "set", pset |-> pset_id, name |-> name, v |-> value,
            ok |-> r.ok, id |-> r.id, pre |-> Snapshot])

\* IosPSetAdapter.add_property_to_pset(pset_id, Property(name, value))
PsetAddProperty(pset_id, name, value) ==
    /\ Running
    /\ PsetAddReturned(pset_id, name, value, add_property_to_pset(Ctx(ents, nextId, is_modified), pset_id, name, value))
    /\ UNCHANGED <<call, persisted, file_path, disk>>

PsetRemoveReturned(pset_id, prop_name, r) ==
    /\ Commit(r.c)
    /\ Did([op |-> "remove_property_from_pset", via |-> "set", pset |-> pset_id, name |-> prop_name,
            ok |-> r.ok, ret |-> r.ret, pre |-> Snapshot])

\* IosPSetAdapter.remove_property_from_pset(pset_id, prop_name)
PsetRemoveProperty(pset_id, prop_name) ==
    /\ Running
    /\ PsetRemoveReturned(pset_id, prop_name, remove_property_from_pset(Ctx(ents, nextId, is_modified), pset_id, prop_name))
    /\ UNCHANGED <<call, persisted, file_path, disk>>

ObjectAddReturned(base_id, pset_name, name, value, r) ==
    /\ Commit(r.c)
    /\ Did([op |-> "add_property_to_pset", via |-> "object", base |-> base_id, pset |-> get_pset_by_name(ents, base_id, pset_name),
            name |-> name, v |-> value, ok |-> TRUE, id |-> r.id, pre |-> Snapshot])

\* IosObjectBaseAdapter.add_property_to_pset(base_id, pset_name, Property(name, value))
ObjectAddProperty(base_id, pset_name, name, value) ==
    /\ Running
    /\ ObjectAddReturned(base_id, pset_name, name, value,
                         object_add_property_to_pset(Ctx(ents, nextId, is_modified), base_id, pset_name, name, value))
    /\ UNCHANGED <<call, persisted, file_path, disk>>

ObjectRemoveReturned(base_id, pset_name, prop_name, r) ==
    /\ Commit(r.c)
    /\ Did([op |-> "remove_property_from_pset", via |-> "object", base |-> base_id, pset |-> get_pset_by_name(ents, base_id, pset_name),
            name |-> prop_name, ok |-> TRUE, ret |-> r.ret, pre |-> Snapshot])

\* IosObjectBaseAdapter.remove_property_from_pset(base_id, pset_name, prop_name)
ObjectRemoveProperty(base_id, pset_name, prop_name) ==
    /\ Running
    /\ ObjectRemoveReturned(base_id, pset_name, prop_name,
                            object_remove_property_from_pset(Ctx(ents, nextId, is_modified), base_id, pset_name, prop_name))
    /\ UNCHANGED <<call, persisted, file_path, disk>>

NextSets ==
    \/ \E pset_id \in {6, 9}, name \in {"New", "TestProperty", "Width"}, value \in PropertyValues : PsetAddProperty(pset_id, name, value)
    \/ \E pset_id \in {0, 5} : PsetAddProperty(pset_id, "New", AnyValue)
    \/ \E pset_id \in {0, 5, 6, 9}, prop_name \in {"New", "TestProperty", "Width", "Missing"} : PsetRemoveProperty(pset_id, prop_name)
    \/ \E base_id \in {0, 10, 11}, pset_name \in {"Test_PropertySet", "Qto", "Missing"}, name \in {"New", "TestProperty"},
          value \in {IfcValue(RStr("b"), "TEXT", UNKNOWN, "NONE").v, IfcValue(RFloat(25, 0), "REAL", "LENGTH", "NONE").v} :
          ObjectAddProperty(base_id, pset_name, name, value)
    \/ \E base_id \in {0, 10}, pset_name \in {"Test_PropertySet", "Qto", "Missing"}, prop_name \in {"New", "TestProperty", "Width"} :
          ObjectRemoveProperty(base_id, pset_name, prop_name)

\* ----------------------------------------------------------------- specs

Init ==
    /\ \E root \in {"none", "bare", "units"} : ents = InitialModel(root)
    /\ nextId = FirstNewId
    /\ is_modified = FALSE
    /\ last = NoLast
    /\ call = NoCall
    /\ persisted = <<>>
    /\ calls = 0
    /\ file_path = None
    /\ disk = NoFiles

Spec == Init /\ [][Next]_vars

InitFactory ==
    /\ nextId = FirstNewId
    /\ is_modified = FALSE
    /\ last = NoLast
    /\ persisted = <<>>
    /\ calls = 0
    /\ file_path = None
    /\ disk = NoFiles
    /\ \/ /\ ents = InitialModel("units")
          /\ \E value \in RawInputs \ {NoneRaw}, value_type \in IfcValueType, unit_type \in {UNKNOWN, COUNT, "LENGTH", "MASS"}, prefix \in {"NONE", "KILO", "MILLI"} :
                call = [fn |-> "IfcValue", value |-> value, value_type |-> value_type, unit_type |-> unit_type, prefix |-> prefix, done |-> FALSE, out |-> NoOut]
       \/ /\ ents = InitialModel("units")
          /\ \E value \in RawInputs, value_type \in ValueTypeArgs, unit_type \in UnitTypeArgs, prefix \in PrefixArgs :
                call = [fn |-> "create", value |-> value, value_type |-> value_type, unit_type |-> unit_type, prefix |-> prefix, done |-> FALSE, out |-> NoOut]
       \/ \E root \in {"none", "bare", "units"}, property_id \in {5, 7, 8}, value \in WriteValues :
             /\ ents = set_value(Ctx(InitialModel(root), FirstNewId, FALSE), property_id, value).c.ents
             /\ call = [fn |-> "get_value", arg |-> property_id, done |-> FALSE, out |-> NoOut]
       \/ /\ ents = InitialModel("units")
          /\ \E a \in Literals, b \in Literals : call = [fn |-> "eq", a |-> a, b |-> b, done |-> FALSE, out |-> NoOut]
       \/ /\ ents = InitialModel("units")
          /\ \E kind \in {"PropertySet", "QuantitySet"}, name \in {"Q", "", " "},
                properties \in {<<>>} \cup {<<a>> : a \in DefinitionProperties} \cup {<<a, b>> : a \in DefinitionProperties, b \in DefinitionProperties} :
                call = [fn |-> "define", definition |-> [kind |-> kind, name |-> name, properties |-> properties], done |-> FALSE, out |-> NoOut]

InitTokens ==
    /\ ents = InitialModel("units")
    /\ nextId = FirstNewId
    /\ is_modified = FALSE
    /\ last = NoLast
    /\ persisted = <<>>
    /\ calls = 0
    /\ file_path = None
    /\ disk = NoFiles
    /\ \E fn \in {"from_ifc_unit_enum", "from_measure_type", "IfcValueType", "IfcPrefix"}, t \in Tokens :
          call = [fn |-> fn, arg |-> t, done |-> FALSE, out |-> NoOut]

\* a session on the model of the test file: opened from a file, or built
\* on a model that has no file
InitObjects ==
    /\ \E root \in {"bare", "units"}, opened \in BOOLEAN :
          /\ ents = InitialModel(root)
          /\ file_path = (IF opened THEN "a.ifc" ELSE None)
          /\ disk = (IF opened THEN [NoFiles EXCEPT !["a.ifc"] = [exists |-> TRUE, ents |-> InitialModel(root)]] ELSE NoFiles)
    /\ nextId = FirstNewId
    /\ is_modified = FALSE
    /\ last = NoLast
    /\ call = NoCall
    /\ persisted = <<>>
    /\ calls = 0

SpecFactory == InitFactory /\ [][NextFactory]_vars

SpecObjects == InitObjects /\ [][NextObjects]_vars

\* the property set calls start on the model of the test file
SpecSets == Init /\ [][NextSets]_vars

SpecTokens == InitTokens /\ [][NextTokens]_vars

\* ----------------------------------------------------------------- claims

\* two Values are equal, floats within the tolerance
SameValue(a, b) ==
    /\ a.value_type = b.value_type /\ a.unit_type = b.unit_type /\ a.prefix = b.prefix
    /\ IF a.value.k = "float" /\ b.value.k = "float" THEN Tenths(a.value) = Tenths(b.value) ELSE PyEq(a.value, b.value)

\* the recorded call wrote last.v to the entity last.pid, which exists
Wrote == last.op \in {"set_value", "add"} /\ last.ok /\ ~last.failed /\ last.pid \in DOMAIN ents

\* the Value the written entity reads back as
ReadBack == get_value(ents, last.pid).got

\* the entity has the shape of the Value: a single-value property takes any
\* Value, a quantity the REAL Values of its unit type, a count the INTEGERs
MatchingShape(entity, v) ==
    \/ entity.type = "IfcPropertySingleValue"
    \/ entity.type \in QuantityTypes \ {"IfcQuantityCount"} /\ v.value_type = "REAL" /\ v.unit_type = shape_unit_type(entity)
    \/ entity.type = "IfcQuantityCount" /\ v.value_type = "INTEGER" /\ v.unit_type = COUNT

HasProject == first_by_type(ents, "IfcProject") # 0

\* the (unit_type, prefix) pair an SI unit entity stands for
UnitPair(unit) ==
    <<from_ifc_unit_enum(unit.UnitType).m,
      IF unit.Name = "KILOGRAM" THEN "KILO" ELSE IF unit.Prefix = None THEN "NONE" ELSE unit.Prefix>>

\* the SI units registered in the project's unit assignment
Registered ==
    LET project == first_by_type(ents, "IfcProject")
        container == IF project = 0 THEN 0 ELSE ents[project].UnitsInContext
    IN IF container = 0 THEN {} ELSE {ents[container].Units[k] : k \in 1..Len(ents[container].Units)}

\* C1: a Value of a supported type (every value type but BOOLEAN, which is
\* normalised) written by set_value or add to an entity of the matching
\* shape is read back by get_value as an equal Value, floats within the
\* tolerance, whatever units the model already holds.
C1_RoundTrip ==
    (Wrote /\ last.v.value_type # "BOOLEAN" /\ MatchingShape(ents[last.pid], last.v))
        => (ReadBack.some /\ SameValue(ReadBack.v, last.v))

\* C2: set_value with a Value equal (within tolerance) to the one get_value
\* returned before the call returns False and leaves the number of value
\* holders and of unit entities as it was.
C2_NoOpDetection ==
    (last.op = "set_value" /\ last.ok /\ last.pre.got.some /\ SameValue(last.v, last.pre.got.v))
        => (/\ ~last.ret
            /\ Cardinality(Holders(ents)) = last.pre.holders
            /\ Cardinality(Units(ents)) = last.pre.units)

LengthUnits == {u \in Units(ents) : ents[u].UnitType = "LENGTHUNIT" /\ ents[u].Prefix = None}

\* the length quantities whose last persisted Value required (LENGTH, NONE)
LengthQuantities == {q \in DOMAIN persisted : q \in DOMAIN ents /\ ents[q].type = "IfcQuantityLength" /\ persisted[q] = <<"LENGTH", "NONE">>}

Deduplicated ==
    \A q1, q2 \in LengthQuantities :
        q1 # q2 => (/\ Cardinality(LengthUnits) = 1
                    /\ ents[q1].Unit \in LengthUnits
                    /\ ents[q1].Unit = ents[q2].Unit)

\* C3 as stated: once two different quantities were persisted with Values
\* that require (LENGTH, NONE), the model holds exactly one SI length unit
\* without prefix and both quantities reference it.
C3_UnitDeduplication_AnyModel == Deduplicated

\* C3: on a model with a project root, once two different quantities were
\* persisted with Values that require (LENGTH, NONE), the model holds exactly
\* one SI length unit without prefix and both quantities reference it.
C3_UnitDeduplication == HasProject => Deduplicated

C3_Witness == HasProject /\ Cardinality(LengthQuantities) >= 2 /\ Deduplicated

\* C4: on a model with a project root the unit assignment holds at most one
\* SI unit per (unit_type, prefix) pair, and the entity get_or_create_unit
\* returns stands for the pair it was asked for (so the same pair gives the
\* same entity and different pairs give different entities).
C4_UnitRegistry ==
    HasProject =>
        /\ \A u1, u2 \in Registered : (u1 # u2) => (UnitPair(ents[u1]) # UnitPair(ents[u2]))
        /\ (last.op = "get_or_create_unit" /\ last.unit # 0) => (UnitPair(ents[last.unit]) = <<last.unit_type, last.prefix>>)

IsKilogram(unit) == unit.type = "IfcSIUnit" /\ unit.Name = "KILOGRAM" /\ unit.Prefix = None

KilogramCreated ==
    (last.op = "get_or_create_unit" /\ last.unit_type = "MASS" /\ last.prefix = "KILO")
        => (last.unit # 0 /\ last.unit \in DOMAIN ents /\ IsKilogram(ents[last.unit]))

ReadsAsKilogram(p) ==
    LET g == get_value(ents, p).got IN g.some /\ g.v.unit_type = "MASS" /\ g.v.prefix = "KILO"

ReferencesKilogram(p) == ents[p].Unit # 0 /\ IsKilogram(ents[ents[p].Unit])

C6_BooleanNormalization ==
    (Wrote /\ last.v.value_type = "BOOLEAN" /\ ents[last.pid].type = "IfcPropertySingleValue")
        => (ReadBack.some /\ ReadBack.v.value_type = "LOGICAL" /\ ReadBack.v.value = last.v.value)

C6_Witness ==
    /\ Wrote /\ last.op = "set_value" /\ last.v.value_type = "BOOLEAN" /\ last.v.value = RBool(TRUE)
    /\ ents[last.pid].type = "IfcPropertySingleValue"
    /\ ReadBack.some /\ ReadBack.v.value_type = "LOGICAL" /\ ReadBack.v.value = RBool(TRUE)

Created == call.fn = "create" /\ call.done

\* the unit-type argument resolves to COUNT
AsksCount(unit_type) == unit_type \in {Member(COUNT), AsStr("COUNT")}

\* C7: create("3.5", unit_type=COUNT) without a value type succeeds with a
\* Value holding 3.5; create("abc", value_type=INTEGER) fails with the
\* ValueError that names the raw value and the target type; create(None)
\* always fails.
C7_CountCoercion ==
    Created =>
        /\ (call.value = RStr("3.5") /\ call.value_type = NotSupplied /\ AsksCount(call.unit_type) /\ call.prefix = NotSupplied)
              => (call.out.ok /\ call.out.v.value = RFloat(35, 0))
        /\ (call.value = RStr("abc") /\ call.value_type = Member("INTEGER") /\ call.prefix.k # "str")
              => (~call.out.ok /\ call.out.err = "ValueError" /\ call.out.original = RStr("abc") /\ call.out.target = "IfcInteger")
        /\ (call.value = NoneRaw) => ~call.out.ok

C7_Witness ==
    /\ Created /\ call.value = RStr("3.5") /\ call.value_type = NotSupplied /\ call.unit_type = Member(COUNT)
    /\ call.prefix = NotSupplied /\ call.out.ok /\ call.out.v.value = RFloat(35, 0) /\ call.out.v.value_type = "REAL"

UnitKindTokens == {"LENGTHUNIT", "AREAUNIT", "VOLUMEUNIT", "MASSUNIT", "TIMEUNIT", "THERMODYNAMICTEMPERATUREUNIT", "PRESSUREUNIT", "ENERGYUNIT", "POWERUNIT", "PLANEANGLEUNIT"}

MeasureWords == {"LENGTH", "AREA", "VOLUME", "MASS", "TIME", "THERMODYNAMICTEMPERATURE", "PRESSURE", "ENERGY", "POWER", "COUNT", "PLANEANGLE"}

StoreTypeNames == {"IfcReal", "IfcInteger", "IfcBoolean", "IfcText", "IfcLabel", "IfcLogical", "IfcIdentifier"}

\* the unit-type lookups return a member for every token, UNKNOWN for the
\* ones they do not recognise, and the value-type lookup takes every str
LookupsTotal ==
    /\ (call.fn = "from_ifc_unit_enum" /\ call.done)
          => (/\ call.out.ok /\ call.out.m \in IfcUnitType
              /\ (call.arg = None \/ str_upper(call.arg) \notin UnitKindTokens) => call.out.m = UNKNOWN)
    /\ (call.fn = "from_measure_type" /\ call.done)
          => (/\ call.out.ok /\ call.out.m \in IfcUnitType
              /\ (call.arg = None \/ \A w \in MeasureWords : ~Contains(str_upper(call.arg), w)) => call.out.m = UNKNOWN)
    /\ (call.fn = "IfcValueType" /\ call.done /\ call.arg # None)
          => (call.out.ok /\ call.out.m \in IfcValueType)

\* an unrecognised store token of the value-type lookup with MEASURE in it
MeasureToken == call.fn = "IfcValueType" /\ call.done /\ call.arg # None /\ call.arg \notin StoreTypeNames /\ Contains(str_upper(call.arg), "MEASURE")

\* C8 as stated: the lookups are total as above, and every unrecognised
\* value-type token containing MEASURE gives REAL.
C8_UnknownToken_AllReal == LookupsTotal /\ (MeasureToken => call.out.m = "REAL")

\* C8: the lookups are total as above, and an unrecognised value-type token
\* containing MEASURE gives INTEGER when it also contains COUNT, LOGICAL when
\* it also contains LOGICAL or BOOLEAN, and REAL otherwise.
C8_UnknownToken ==
    /\ LookupsTotal
    /\ MeasureToken =>
          call.out.m = (IF Contains(str_upper(call.arg), "COUNT") THEN "INTEGER"
                        ELSE IF Contains(str_upper(call.arg), "LOGICAL") \/ Contains(str_upper(call.arg), "BOOLEAN") THEN "LOGICAL"
                        ELSE "REAL")

C8_Witness == MeasureToken /\ call.arg = "IfcSomeWeirdMeasure" /\ call.out.ok /\ call.out.m = "REAL"

\* the value type the inference is to give: LOGICAL for a bool, INTEGER for
\* an int or a str of digits, REAL for a float or a decimal str, else TEXT
ExpectedType(value) ==
    IF value.k = "bool" THEN "LOGICAL"
    ELSE IF value.k = "int" \/ (value.k = "str" /\ IsDigits(value.s)) THEN "INTEGER"
    ELSE IF value.k = "float" \/ (value.k = "str" /\ IsDecimal(value.s)) THEN "REAL"
    ELSE "TEXT"

\* C9: without a value type, create infers LOGICAL for a bool, INTEGER for
\* an integer or integer string, REAL for a float or decimal string and TEXT
\* otherwise, and the Value holds the number that was given.
C9_TypeInference ==
    (Created /\ call.value # NoneRaw /\ call.value_type = NotSupplied /\ call.prefix.k # "str")
        => (/\ call.out.ok
            /\ call.out.v.value_type = ExpectedType(call.value)
            /\ IsNumber(call.value) => (Tenths(call.out.v.value) = Tenths(call.value)))

\* the prefix of a Value without unit is NONE
PrefixRule(v) == (v.unit_type \in {UNKNOWN, COUNT}) => (v.prefix = "NONE")

\* C10: every Value, constructed directly, by the factory or by get_value,
\* has the prefix NONE when its unit type is UNKNOWN or COUNT; the direct
\* construction always succeeds, and a create that fails fails as well when
\* no unit type is given.
C10_ValueConstruction ==
    /\ (call.fn = "IfcValue" /\ call.done) => (call.out.ok /\ PrefixRule(call.out.v))
    /\ (Created /\ call.out.ok) => PrefixRule(call.out.v)
    /\ (Created /\ ~call.out.ok) => ~create(call.value, call.value_type, NotSupplied, call.prefix).ok
    /\ (call.fn = "get_value" /\ call.done /\ call.out.got.some) => PrefixRule(call.out.got.v)

C10_Witness ==
    /\ call.fn = "IfcValue" /\ call.done /\ call.unit_type = COUNT /\ call.prefix = "KILO" /\ call.value_type = "TEXT"
    /\ call.out.ok /\ call.out.mismatch /\ call.out.v.prefix = "NONE"

\* the values of the members of IfcPrefix
PrefixValues == {IfcPrefix_value(m) : m \in IfcPrefix}

\* a string argument of create that no rule of the lookups recognises: no
\* store type name, measure name, unit name, unit kind or prefix, whatever
\* its letter case
UnrecognisedValueType(a) ==
    a.k = "str" /\ (\A m \in IfcValueType : str_upper(IfcValueType_value(m)) # str_upper(a.x)) /\ ~Contains(str_upper(a.x), "MEASURE")

UnrecognisedUnitType(a) == a.k = "str" /\ IfcUnitType_by_name(str_upper(a.x)) = None /\ str_upper(a.x) \notin UnitKindTokens

UnrecognisedPrefix(a) == a.k = "str" /\ str_upper(a.x) \notin PrefixValues

FailedAsInvalid == ~call.out.ok /\ call.out.err = "ValueError"

\* what create does with arguments that are not supplied: the value type is
\* inferred from the raw value, the unit type is UNKNOWN, the prefix NONE
NotSuppliedDefaults ==
    (Created /\ call.out.ok) =>
        /\ (call.value_type = NotSupplied) => (call.out.v.value_type = from_python_type(call.value))
        /\ (call.unit_type = NotSupplied) => (call.out.v.unit_type = UNKNOWN)
        /\ (call.prefix = NotSupplied) => (call.out.v.prefix = "NONE")

C12_PrefixResolution ==
    (call.fn = "IfcPrefix" /\ call.done) =>
        /\ call.out.ok
        /\ call.out.m = (IF call.arg = None \/ call.arg = "" THEN "NONE"
                         ELSE IF str_upper(call.arg) \in PrefixValues THEN str_upper(call.arg)
                         ELSE "NONE")

\* the member whose store type name is the token in some letter case, or None
ByStoreNameIgnoringCase(t) ==
    IF \E m \in IfcValueType : str_upper(IfcValueType_value(m)) = str_upper(t)
    THEN CHOOSE m \in IfcValueType : str_upper(IfcValueType_value(m)) = str_upper(t)
    ELSE None

\* C13: the value-type lookup of a string gives the member whose store type
\* name is the string in any letter case; else, for a measure name in any
\* letter case, INTEGER for a count, LOGICAL for a boolean or logical measure
\* and REAL for the others; else TEXT.
C13_CaseInsensitiveValueType ==
    (call.fn = "IfcValueType" /\ call.done /\ call.arg # None) =>
        /\ call.out.ok
        /\ call.out.m = (IF ByStoreNameIgnoringCase(call.arg) # None THEN ByStoreNameIgnoringCase(call.arg)
                         ELSE IF ~Contains(str_upper(call.arg), "MEASURE") THEN "TEXT"
                         ELSE IF Contains(str_upper(call.arg), "COUNT") THEN "INTEGER"
                         ELSE IF Contains(str_upper(call.arg), "LOGICAL") \/ Contains(str_upper(call.arg), "BOOLEAN") THEN "LOGICAL"
                         ELSE "REAL")

Compared == call.fn = "eq" /\ call.done

\* C14: two Values are equal exactly when their raw values, value types, unit
\* types and prefixes are equal, the unit types being any two of the twelve
\* names: Values built with two different unit type names are unequal.
C14_StructuralEquality ==
    Compared =>
        (call.out = TRUE) <=>
            /\ PyEq(call.a.value, call.b.value)
            /\ call.a.value_type = call.b.value_type
            /\ call.a.unit_type = call.b.unit_type
            /\ Literal(call.a).prefix = Literal(call.b).prefix

\* C15: a set_value call that returns False leaves is_modified as it was
\* before the call, and one that returns True leaves it TRUE.
C15_NoOpFrame ==
    (last.op = "set_value" /\ last.ok) =>
        /\ ~last.ret => (is_modified = last.pre.is_modified)
        /\ last.ret => is_modified

\* the raw value of the Value is one the converter of the quantity does not take
Unconvertible(entity, v) == entity.type \in QuantityTypes /\ quantity_target(entity, v).converted_value = NoneRaw

\* C16: set_value of a Value whose raw value the converter of the quantity
\* does not take, and the add of such a Value to an element quantity, raise,
\* and the quantity (the element quantity) is left as it was.
C16_ConversionFailure ==
    /\ (last.op = "set_value" /\ Unconvertible(last.pre.entity, last.v))
          => (~last.ok /\ ents[last.pid] = last.pre.entity)
    /\ (last.op = "add" /\ last.pset = 9 /\ last.v.unit_type \in ConfiguredUnitTypes
            /\ convert_func(last.v.unit_type, last.v.value) = NoneRaw)
          => (~last.ok /\ ents[9].Quantities = <<7, 8>>)

\* the coercion add_property_to_pset makes for a property of a set of the
\* kind fails
CoercionFails(kind, ifc_value) ==
    IF kind = "QuantitySet" THEN convert_func(ifc_value.unit_type, ifc_value.value) = NoneRaw
    ELSE holder_for(ifc_value).value = NoneRaw

\* the names of the properties an object has in its set of the name
PropertyNames(es, base_id, pset_name) ==
    {es[get_properties(es, get_pset_by_name(es, base_id, pset_name))[k]].Name :
        k \in 1..Len(get_properties(es, get_pset_by_name(es, base_id, pset_name)))}

\* the recorded call added a definition to an object that exists and had
\* no set of the name
AddedTo == last.op = "add_new_pset_to" /\ last.base \in DOMAIN last.pre.ents /\ get_pset_by_name(last.pre.ents, last.base, last.definition.name) = 0

\* C17: when add_new_pset_to adds the properties of a definition and the
\* value of one of them cannot be coerced, only that write is aborted: the
\* object has the set, with every sibling property whose value can be
\* coerced.
C17_BatchIndependence ==
    (AddedTo /\ \E k \in 1..Len(last.definition.properties) : CoercionFails(last.definition.kind, last.definition.properties[k].ifc_value))
        => \A k \in 1..Len(last.definition.properties) :
              ~CoercionFails(last.definition.kind, last.definition.properties[k].ifc_value)
                  => last.definition.properties[k].name \in PropertyNames(ents, last.base, last.definition.name)

\* the recorded call is a creation, removal, attribute change or value
\* change that succeeded
Mutated ==
    \/ last.op = "add_new_pset_to" /\ last.id # 0
    \/ last.op \in {"remove_pset_from", "set_attribute", "set_value"} /\ last.ok /\ last.ret
    \/ last.op = "remove_entity"

\* the recorded call changed nothing of the model in memory, the file path
\* and the flag
NothingChanged == ents = last.pre.ents /\ file_path = last.pre.file_path /\ is_modified = last.pre.is_modified

\* the flag after a mutation and around a save
FlagFollowsSave ==
    /\ Mutated => is_modified
    /\ (last.op = "save" /\ last.ok) => ~is_modified
    /\ (last.op = "save" /\ ~last.ok) => (last.err = "IfcModelContextError" /\ NothingChanged)

\* C18: is_modified is true after every successful creation, removal,
\* attribute change or value change and stays true until a save succeeds
\* (a context newly opened on a file starts unmodified), which sets it to
\* false; a save that fails raises IfcModelContextError and leaves the
\* model in memory, the file path and the flag unchanged.
C18_ModifiedUntilSaved ==
    /\ FlagFollowsSave
    /\ (last.op # "none" /\ last.pre.is_modified /\ ~is_modified) => (last.op \in {"save", "open"} /\ last.ok)

\* C18, with the close of the context: is_modified is true after every
\* successful creation, removal, attribute change or value change and stays
\* true until a save succeeds or the context is closed, either of which
\* sets it to false; a save that fails raises IfcModelContextError and
\* leaves the model in memory, the file path and the flag unchanged.
C18_ModifiedUntilSavedOrClosed ==
    /\ FlagFollowsSave
    /\ (last.op # "none" /\ last.pre.is_modified /\ ~is_modified) => ((last.op \in {"save", "open"} /\ last.ok) \/ last.op = "close")

\* a write to a given path fails on a modified model, which stays modified
C18_Witness ==
    /\ last.op = "save" /\ ~last.ok /\ last.filepath # None
    /\ last.pre.is_modified /\ is_modified /\ ents # InitialModel("units") /\ ents # InitialModel("bare")

\* the set holds exactly the properties of the definition: as many, the
\* same names in the same order, each read back with the raw value given
HoldsExactly(es, pset_id, properties) ==
    /\ Len(get_properties(es, pset_id)) = Len(properties)
    /\ \A k \in 1..Len(properties) :
          /\ es[get_properties(es, pset_id)[k]].Name = properties[k].name
          /\ get_value(es, get_properties(es, pset_id)[k]).got.some
          /\ PyEq(get_value(es, get_properties(es, pset_id)[k]).got.v.value, properties[k].ifc_value.value)

objects_of(es, pset_id) ==
    {o \in DOMAIN es : \E r \in DOMAIN es : es[r].type = "IfcRelDefinesByProperties" /\ es[r].RelatingPropertyDefinition = pset_id /\ named_in(es[r].RelatedObjects, o)}

\* C20: after remove_pset_from returns True for a set that was attached to
\* exactly one object, the set entity is no longer in the model.
C20_SetEntityRemoved ==
    (last.op = "remove_pset_from" /\ last.ret /\ objects_of(last.pre.ents, last.pset) = {last.base})
        => last.pset \notin DOMAIN ents

\* the properties or quantities a set lists
listed(es, pset_id) ==
    IF pset_id \notin DOMAIN es THEN <<>>
    ELSE IF is_a(es[pset_id], "IfcElementQuantity") THEN es[pset_id].Quantities
    ELSE IF is_a(es[pset_id], "IfcPropertySet") THEN es[pset_id].HasProperties
    ELSE <<>>

\* the recorded call added a property under a name its target set had
Duplicate ==
    /\ last.op = "add_property_to_pset"
    /\ named(last.pre.ents, listed(last.pre.ents, last.pset), last.name) # {}

listed_by_name(es, pset_id, name) == first_of(listed(es, pset_id), named(es, listed(es, pset_id), name))

\* the recorded call removed a property, or found none of the name in a
\* set that exists
RemovedProperty == last.op = "remove_property_from_pset" /\ last.ok /\ last.ret
NothingToRemove ==
    /\ last.op = "remove_property_from_pset" /\ last.pset \in DOMAIN last.pre.ents
    /\ listed_by_name(last.pre.ents, last.pset, last.name) = 0

\* after the removal of a property the other properties of the set are
\* listed in the order they had, and are what they were
OthersUnchanged(pset_id, prop_id) ==
    /\ listed(ents, pset_id) = Without(listed(last.pre.ents, pset_id), prop_id)
    /\ \A k \in 1..Len(listed(ents, pset_id)) :
          /\ ents[listed(ents, pset_id)[k]] = last.pre.ents[listed(ents, pset_id)[k]]
          /\ get_value(ents, listed(ents, pset_id)[k]) = get_value(last.pre.ents, listed(ents, pset_id)[k])

\* the property and, for a single-value property, its value holder are gone
Gone(prop_id) ==
    /\ prop_id \notin DOMAIN ents
    /\ last.pre.ents[prop_id].NominalValue # 0 => last.pre.ents[prop_id].NominalValue \notin DOMAIN ents

\* C22: after add_property_to_pset succeeds, the property is found by its
\* name (get_property on the object adapter) and reads back the raw value
\* written; after remove_property_from_pset returns True, no property of
\* the name is found, the property entity and the value holder of a
\* single-value property are gone and the other properties of the set are
\* unchanged; for a name the set does not have the removal returns False
\* and changes nothing.
C22_PropertyRoundTrip ==
    /\ (last.op = "add_property_to_pset" /\ last.id # 0)
          => /\ listed_by_name(ents, last.pset, last.name) = last.id
             /\ last.via = "object" => get_property(ents, last.base, ents[last.pset].Name, last.name) = last.id
             /\ get_value(ents, last.id).got.some
             /\ PyEq(get_value(ents, last.id).got.v.value, last.v.value)
    /\ RemovedProperty
          => /\ listed_by_name(ents, last.pset, last.name) = 0
             /\ last.via = "object" => get_property(ents, last.base, ents[last.pset].Name, last.name) = 0
             /\ Gone(listed_by_name(last.pre.ents, last.pset, last.name))
             /\ OthersUnchanged(last.pset, listed_by_name(last.pre.ents, last.pset, last.name))
    /\ NothingToRemove => (~last.ret /\ NothingChanged)

\* a single-value property that was added to a set of two is removed again
C22_Witness ==
    /\ RemovedProperty /\ last.name = "New" /\ last.pset = 6
    /\ Len(listed(ents, 6)) = 1
    /\ last.pre.ents[listed_by_name(last.pre.ents, 6, "New")].NominalValue # 0

\* the recorded call added a property under a new name to an element
\* quantity, through the set adapter
AddedToQto ==
    /\ last.op = "add_property_to_pset" /\ last.via = "set" /\ ~Duplicate
    /\ last.pset \in DOMAIN last.pre.ents /\ is_a(last.pre.ents[last.pset], "IfcElementQuantity")

\* C23: added to an element quantity, a Value of unit type COUNT is accepted
\* and creates a count quantity without a unit entity, and a Value of unit
\* type UNKNOWN is rejected with an adapter error, nothing being added.
C23_CountAndUnknown ==
    /\ (AddedToQto /\ last.v.unit_type = COUNT /\ last.v.value_type = "INTEGER")
          => (last.ok /\ last.id # 0 /\ ents[last.id].type = "IfcQuantityCount" /\ ents[last.id].Unit = 0)
    /\ (AddedToQto /\ last.v.unit_type = UNKNOWN /\ last.v.value_type = "TEXT")
          => (~last.ok /\ ents = last.pre.ents)

\* a QuantitySet was constructed, or its construction was rejected
DefinedQuantitySet == call.fn = "define" /\ call.done /\ call.definition.kind = "QuantitySet"

\* the property has unit type UNKNOWN (as one without ifc_value has)
UnitUnknown(prop) == ~has_value(prop) \/ prop.ifc_value.unit_type = UNKNOWN

\* the property has a value type other than INTEGER and REAL
NotNumeric(prop) == ~has_value(prop) \/ prop.ifc_value.value_type \notin {"INTEGER", "REAL"}

\* C24: the construction of a QuantitySet is rejected with ValidationError
\* when one of its properties has unit type UNKNOWN or a value type that
\* is not numeric; a QuantitySet that was constructed holds only
\* properties with a defined, allowed unit type and an INTEGER or REAL
\* value type.
C24_QuantitySetValidation ==
    DefinedQuantitySet =>
        /\ (\E k \in 1..Len(call.definition.properties) :
                UnitUnknown(call.definition.properties[k]) \/ NotNumeric(call.definition.properties[k]))
              => (~call.out.ok /\ call.out.err = "ValidationError")
        /\ call.out.ok
              => \A k \in 1..Len(call.definition.properties) :
                    /\ ~UnitUnknown(call.definition.properties[k])
                    /\ call.definition.properties[k].ifc_value.unit_type \in PhysicalUnitTypes \cup {COUNT}
                    /\ ~NotNumeric(call.definition.properties[k])

\* the quantities with an SI unit attached whose unit kind is another than
\* the unit type the quantity's shape implies
MismatchedQuantities ==
    {id \in DOMAIN ents :
        /\ ents[id].type \in QuantityTypes \ {"IfcQuantityCount"}
        /\ ents[id].Unit # 0
        /\ is_a(ents[ents[id].Unit], "IfcSIUnit")
        /\ from_ifc_unit_enum(ents[ents[id].Unit].UnitType).m \notin {UNKNOWN, shape_unit_type(ents[id])}}

\* C25: get_value on a quantity whose attached SI unit has a unit kind
\* other than the unit type of the quantity's shape returns a Value whose
\* unit_type is the classification of the unit entity, not the shape's.
C25_UnitEntityWins ==
    \A id \in MismatchedQuantities :
        get_value(ents, id).got.some
            => get_value(ents, id).got.v.unit_type = from_ifc_unit_enum(ents[ents[id].Unit].UnitType).m

\* the single-value properties of the model
SingleValues(es) == {id \in DOMAIN es : es[id].type = "IfcPropertySingleValue"}

\* the single-value properties that reference the holder
holders_of(es, holder) == {id \in SingleValues(es) : es[id].NominalValue = holder}

\* C26: set_value leaves no scalar holder behind: after any sequence of
\* calls every single-value property references one holder entity of the
\* model, and the model holds no holder that is not referenced by exactly
\* one property.
C26_NoHolderChurn ==
    /\ \A id \in SingleValues(ents) : ents[id].NominalValue \in Holders(ents)
    /\ \A holder \in Holders(ents) : Cardinality(holders_of(ents, holder)) = 1
    /\ Cardinality(Holders(ents)) = Cardinality(SingleValues(ents))

\* a set_value that replaced the holder of a single-value property: the
\* property references a holder entity created by the call
C26_Witness ==
    /\ last.op = "set_value" /\ last.ok /\ last.ret
    /\ last.pid \in SingleValues(ents)
    /\ last.pre.entity.NominalValue # 0
    /\ ents[last.pid].NominalValue # last.pre.entity.NominalValue
    /\ last.pre.entity.NominalValue \notin DOMAIN ents
    /\ calls >= 2
    /\ C26_NoHolderChurn

\* the members of the unit assignment of the project of a model
registered_in(es) ==
    IF first_by_type(es, "IfcProject") = 0 THEN {}
    ELSE IF es[first_by_type(es, "IfcProject")].UnitsInContext = 0 THEN {}
    ELSE {es[es[first_by_type(es, "IfcProject")].UnitsInContext].Units[k] :
             k \in 1..Len(es[es[first_by_type(es, "IfcProject")].UnitsInContext].Units)}

\* C27: on a model with a project, the unit get_or_create_unit returns is
\* a member of the project's unit assignment when the call returns (the
\* assignment is created and attached where the project had none), and
\* the units that were in the assignment stay in it; for UNKNOWN and COUNT
\* the call returns nothing and changes neither the store nor the
\* modified flag.
C27_ReturnedUnitRegistered ==
    [][(last'.op = "get_or_create_unit" /\ first_by_type(ents, "IfcProject") # 0) =>
          /\ last'.unit # 0 =>
                /\ ents'[first_by_type(ents', "IfcProject")].UnitsInContext # 0
                /\ is_a(ents'[ents'[first_by_type(ents', "IfcProject")].UnitsInContext], "IfcUnitAssignment")
                /\ last'.unit \in registered_in(ents')
          /\ registered_in(ents) \subseteq registered_in(ents')
          /\ last'.unit_type \in {UNKNOWN, IfcUnitType_by_name("COUNT")} =>
                (last'.unit = 0 /\ ents' = ents /\ is_modified' = is_modified)]_vars

\* a call on a project without unit assignment returned a new unit: the
\* assignment was created by the call and holds the unit
C27_Witness ==
    /\ last.op = "get_or_create_unit" /\ last.unit >= FirstNewId /\ calls = 1
    /\ HasProject
    /\ ents[first_by_type(ents, "IfcProject")].UnitsInContext >= FirstNewId
    /\ registered_in(ents) = {last.unit}

\* set_value was called on a quantity that had a unit attached, with a
\* number as Value without unit information
SetWithoutUnit ==
    /\ last.op = "set_value"
    /\ last.pre.entity.type \in QuantityTypes
    /\ last.pre.entity.Unit # 0
    /\ last.v.value_type \in {"INTEGER", "REAL"}
    /\ last.v.unit_type = UNKNOWN /\ last.v.prefix = "NONE"

\* C29: set_value on a quantity with a unit attached, called with a Value
\* of unit type UNKNOWN, changes only the scalar: the quantity references
\* the same unit entity after the call as before it.
C29_UnitKept ==
    SetWithoutUnit =>
        /\ ents[last.pid].Unit = last.pre.entity.Unit
        /\ ents[last.pid] = [last.pre.entity EXCEPT !.value = ents[last.pid].value]

\* C28: after close() the context no longer holds the model and
\* is_modified is false; a call on the closed context (a lookup, a
\* creation, a removal, a save) does not reach the model: it changes
\* neither the entities nor the flag and writes no file. open() makes a
\* new context and is no call on the closed one.
C28_ClosedContext ==
    [][/\ last'.op = "close" => ~is_modified'
       /\ (last.op = "close" /\ last'.op # "open") =>
             (ents' = ents /\ ~is_modified' /\ disk' = disk)]_vars

\* C30: an add_new_pset_to that fails returns None and leaves the
\* entities of the model as they were before the call: no set,
\* relationship, property, value holder or unit it created remains, and
\* the sets of the object are unchanged.
C30_FailedAddLeavesNothing ==
    (last.op = "add_new_pset_to" /\ last.id = 0) =>
        /\ ents = last.pre.ents
        /\ last.base \in DOMAIN ents => get_psets(ents, last.base, TRUE) = get_psets(last.pre.ents, last.base, TRUE)

====
